---- MODULE Spec2Model ----
(***************************************************************************)
(* Drizzle-Generator: the column / enum codec (ColumnGenerator,            *)
(* EnumGenerator, SchemaReader), the diff engine (SchemaChangeDetector.    *)
(* compareSchemas) and the change-application gate (applySafeChanges).     *)
(*                                                                         *)
(* Source text is modelled character by character: a TLA+ string is the    *)
(* sequence of its characters and Len, SubSeq and \o act on it as the      *)
(* JavaScript string operations do.  A TLA+ string literal cannot hold the *)
(* backtick, so the model writes that one character as "#" (BT); no input  *)
(* of the model contains "#".                                              *)
(*                                                                         *)
(* A JavaScript value that may be undefined is a tagged record: NONE,      *)
(* B(boolean), N(number) or S(string).                                     *)
(***************************************************************************)
EXTENDS Integers, Sequences, FiniteSets, TLC

VARIABLES codec, enumc, diff, gate, reader, build, trip

vars == <<codec, enumc, diff, gate, reader, build, trip>>

-----------------------------------------------------------------------------
(* JavaScript values *)

NONE == [k |-> "undefined"]
B(v) == [k |-> "boolean", b |-> v]
N(v) == [k |-> "number", n |-> v]
S(v) == [k |-> "string", s |-> v]

\* JavaScript truthiness of a tagged value.
Truthy(v) ==
  CASE v.k = "undefined" -> FALSE
    [] v.k = "boolean" -> v.b
    [] v.k = "number" -> v.n # 0
    [] v.k = "string" -> v.s # ""
    [] OTHER -> TRUE

-----------------------------------------------------------------------------
(* JavaScript string operations *)

BT == "#"
Lowers == "abcdefghijklmnopqrstuvwxyz"
Uppers == "ABCDEFGHIJKLMNOPQRSTUVWXYZ"
Digits == "0123456789"

Chars(s) == {SubSeq(s, i, i) : i \in 1..Len(s)}
UpperChars == Chars(Uppers)
LowerChars == Chars(Lowers)
DigitChars == Chars(Digits)
WordChars == LowerChars \cup UpperChars \cup DigitChars \cup {"_"}
SpaceChars == {" ", "\n", "\t", "\r"}
\* s.charAt(i - 1)
At(s, i) == IF 1 <= i /\ i <= Len(s) THEN SubSeq(s, i, i) ELSE ""

\* [A-Z], \d, \w, \s
IsUpper(c) == c \in UpperChars
IsDigit(c) == c \in DigitChars
IsWord(c) == c \in WordChars
IsSpace(c) == c \in SpaceChars

\* s.substring(i - 1): the rest of s from position i (1-based) on.
From(s, i) == SubSeq(s, i, Len(s))

\* s.indexOf(sub, from - 1) + 1: the first position >= from where sub occurs, 0 if none.
IndexFrom(s, sub, from) ==
  LET hits == {i \in from..(Len(s) - Len(sub) + 1) : SubSeq(s, i, i + Len(sub) - 1) = sub}
  IN IF hits = {} THEN 0 ELSE CHOOSE i \in hits : \A j \in hits : i <= j

Includes(s, sub) == IndexFrom(s, sub, 1) # 0
StartsWith(s, sub) == Len(sub) <= Len(s) /\ SubSeq(s, 1, Len(sub)) = sub
EndsWith(s, sub) == Len(sub) <= Len(s) /\ From(s, Len(s) - Len(sub) + 1) = sub

\* The position of character c in the alphabet string abc.
Pos(abc, c) == CHOOSE i \in 1..Len(abc) : At(abc, i) = c

LowerChar(c) == IF IsUpper(c) THEN At(Lowers, Pos(Uppers, c)) ELSE c
UpperChar(c) == IF c \in LowerChars THEN At(Uppers, Pos(Lowers, c)) ELSE c

RECURSIVE ToLowerCase(_)
ToLowerCase(s) == IF s = "" THEN "" ELSE LowerChar(Head(s)) \o ToLowerCase(Tail(s))

\* The end of the longest run of characters of the class cs that starts at
\* position i (i - 1 when s[i] is not in cs): what a greedy \w+, \d+ or \s*
\* consumes.  RunUntil is the same for the complement of cs ([^...]).
RunEnd(s, i, cs) ==
  LET stops == {j \in i..Len(s) : At(s, j) \notin cs}
  IN IF stops = {} THEN Len(s) ELSE (CHOOSE j \in stops : \A m \in stops : j <= m) - 1

RunUntil(s, i, cs) ==
  LET stops == {j \in i..Len(s) : At(s, j) \in cs}
  IN IF stops = {} THEN Len(s) ELSE (CHOOSE j \in stops : \A m \in stops : j <= m) - 1

\* s.replace(/c/g, ""): every occurrence of the character c removed.
RECURSIVE RemoveChar(_, _)
RemoveChar(s, c) ==
  IF s = "" THEN ""
  ELSE (IF Head(s) = c THEN "" ELSE Head(s)) \o RemoveChar(Tail(s), c)

\* s.split(c): the pieces of s between occurrences of the character c.
RECURSIVE SplitChar(_, _)
SplitChar(s, c) ==
  LET i == IndexFrom(s, c, 1)
  IN IF i = 0 THEN <<s>> ELSE <<SubSeq(s, 1, i - 1)>> \o SplitChar(From(s, i + 1), c)

\* parts.join(sep)
RECURSIVE Join(_, _)
Join(parts, sep) ==
  IF parts = <<>> THEN ""
  ELSE IF Len(parts) = 1 THEN parts[1]
  ELSE parts[1] \o sep \o Join(Tail(parts), sep)

\* String(n) for an integer n, and parseInt of a string of digits.
RECURSIVE NatToStr(_)
NatToStr(n) ==
  IF n < 10 THEN At(Digits, n + 1) ELSE NatToStr(n \div 10) \o At(Digits, (n % 10) + 1)
NumToStr(n) == IF n < 0 THEN "-" \o NatToStr(0 - n) ELSE NatToStr(n)

RECURSIVE ParseInt(_)
ParseInt(s) ==
  IF s = "" THEN 0
  ELSE 10 * ParseInt(SubSeq(s, 1, Len(s) - 1)) + (Pos(Digits, At(s, Len(s))) - 1)

AllDigits(s) == s # "" /\ \A i \in 1..Len(s) : IsDigit(At(s, i))

\* The least element of a set of positions, 0 for the empty set: where the
\* leftmost match of a regular expression starts.
First(ps) == IF ps = {} THEN 0 ELSE CHOOSE i \in ps : \A j \in ps : i <= j
Last(ps) == IF ps = {} THEN 0 ELSE CHOOSE i \in ps : \A j \in ps : i >= j

\* Every position where sub occurs in s.
Occurrences(s, sub) ==
  {i \in 1..(Len(s) - Len(sub) + 1) : SubSeq(s, i, i + Len(sub) - 1) = sub}

\* The character class of "." in a JavaScript regular expression.
LineTerminators == {"\n", "\r"}
IsDot(c) == c \notin LineTerminators

-----------------------------------------------------------------------------
(* src/unnamed/part_010 PascalCase, src/src/utils/SnakeCase.ts SnakeCase *)

Separators == {"_", "-"}

\* value.split(/[_-]+/)
RECURSIVE SplitWords(_)
SplitWords(value) ==
  LET e == RunUntil(value, 1, Separators)
  IN IF e = Len(value) THEN <<value>>
     ELSE <<SubSeq(value, 1, e)>> \o SplitWords(From(value, RunEnd(value, e + 1, Separators) + 1))

\* w.charAt(0).toUpperCase() + w.slice(1).toLowerCase()
Capitalize(w) == IF w = "" THEN "" ELSE UpperChar(Head(w)) \o ToLowerCase(Tail(w))

MapCapitalize(ws) == [i \in 1..Len(ws) |-> Capitalize(ws[i])]

PascalCase(value) ==
  LET words == SplitWords(value)
  IN Join([i \in 1..Len(words) |-> Join(MapCapitalize(SplitChar(words[i], " ")), " ")], "")

\* str.replace(/([A-Z])/g, (m, p1, offset) => (offset > 0 ? "_" : "") + p1.toLowerCase())
RECURSIVE SnakeFrom(_, _)
SnakeFrom(str, i) ==
  IF i > Len(str) THEN ""
  ELSE (IF IsUpper(At(str, i))
        THEN (IF i > 1 THEN "_" ELSE "") \o LowerChar(At(str, i))
        ELSE At(str, i)) \o SnakeFrom(str, i + 1)

SnakeCase(str) == SnakeFrom(str, 1)

-----------------------------------------------------------------------------
(* src/src/utils/AddImport.ts *)

\* TypeMap[key]: the drizzle constructor of a semantic type, NONE for a key the
\* map does not hold.
TypeMap(key) ==
  CASE key = "serial" -> S("serial")
    [] key = "string" -> S("varchar")
    [] key = "text" -> S("text")
    [] key = "number" -> S("integer")
    [] key = "bigint" -> S("bigint")
    [] key = "boolean" -> S("boolean")
    [] key = "date" -> S("timestamp")
    [] key = "json" -> S("jsonb")
    [] key = "uuid" -> S("uuid")
    [] key = "enum" -> S("pgEnum")
    [] OTHER -> NONE

\* An ImportMap is the sequence of its [path, names] entries in insertion order.
addImportToMap(imports, importPath, importName) ==
  LET at == {i \in 1..Len(imports) : imports[i].path = importPath}
  IN IF at = {} THEN Append(imports, [path |-> importPath, names |-> <<importName>>])
     ELSE [i \in 1..Len(imports) |->
             IF i \in at /\ \A j \in 1..Len(imports[i].names) : imports[i].names[j] # importName
             THEN [imports[i] EXCEPT !.names = Append(@, importName)]
             ELSE imports[i]]

-----------------------------------------------------------------------------
(* src/src/generators/ColumnGenerator.ts *)

\* The options of a column definition; an absent options object is the object
\* with every field undefined (the code reads it as `options = {}`).
NoOptions ==
  [notNull |-> NONE, primaryKey |-> NONE, default |-> NONE, length |-> NONE,
   enumValues |-> NONE, references |-> NONE]

Ref(t, c) == [k |-> "object", table |-> t, column |-> c]

\* defaultValue.replace(/^sql\.(\w+)\(\)$/, "sql`$1()`")
SqlFunctionReplace(defaultValue) ==
  LET e == RunEnd(defaultValue, 5, WordChars)
  IN IF StartsWith(defaultValue, "sql.") /\ e >= 5 /\ From(defaultValue, e + 1) = "()"
     THEN "sql" \o BT \o SubSeq(defaultValue, 5, e) \o "()" \o BT
     ELSE defaultValue

\* Lines 70-89: the text inside .default(...) and whether `sql` is imported.
RenderDefault(value, isEnumType) ==
  IF value.k = "string"
  THEN IF value.s = "sql.now()" THEN [text |-> "sql" \o BT \o "now()" \o BT, sql |-> TRUE]
       ELSE IF StartsWith(value.s, "sql.")
         THEN [text |-> SqlFunctionReplace(value.s), sql |-> TRUE]
       ELSE IF ~Includes(value.s, "(") /\ ~Includes(value.s, ".") /\ ~Includes(value.s, BT)
         THEN [text |-> "'" \o (IF isEnumType THEN PascalCase(value.s) ELSE value.s) \o "'",
               sql |-> FALSE]
       ELSE [text |-> value.s, sql |-> FALSE]
  ELSE IF value.k = "boolean" THEN [text |-> IF value.b THEN "true" ELSE "false", sql |-> FALSE]
  ELSE [text |-> NumToStr(value.n), sql |-> FALSE]

ColumnError(msg) == [column |-> "", imports |-> <<>>, tables |-> <<>>, error |-> S(msg)]

ColumnGenerator(definition) ==
  LET name == definition.name
      options == definition.options
      inferredType == IF Truthy(definition.type) THEN definition.type
                      ELSE IF Truthy(options.enumValues) THEN S("enum") ELSE NONE
  IN
  IF inferredType = NONE
  THEN ColumnError("Type is required for column '" \o name
                   \o "'. Provide either 'type' property or 'enumValues' in options.")
  ELSE
  LET lower == ToLowerCase(inferredType.s)
      drizzleFunc == TypeMap(lower)
  IN
  IF drizzleFunc = NONE
  THEN ColumnError("Unsupported type '" \o inferredType.s \o "' for column '" \o name \o "'.")
  ELSE
  LET imports1 == IF lower # "enum"
                  THEN addImportToMap(<<>>, "drizzle-orm/pg-core", drizzleFunc.s) ELSE <<>>
      withLength == drizzleFunc.s = "varchar" /\ Truthy(options.length)
      asEnum == lower = "enum" /\ Truthy(options.enumValues)
      functionArgs == IF withLength
                      THEN <<"'" \o name \o "'", "{ length: " \o NumToStr(options.length.n) \o " }">>
                      ELSE <<"'" \o name \o "'">>
      imports2 == IF ~withLength /\ asEnum
                  THEN addImportToMap(imports1, "../enums/index.js", options.enumValues.s)
                  ELSE imports1
      call == (IF asEnum THEN name \o ": " \o options.enumValues.s \o "("
                         ELSE name \o ": " \o drizzleFunc.s \o "(")
              \o Join(functionArgs, ", ") \o ")"
      pk == IF Truthy(options.primaryKey) THEN ".primaryKey()" ELSE ""
      nn == IF Truthy(options.notNull) THEN ".notNull()" ELSE ""
      dflt == IF options.default # NONE
              THEN RenderDefault(options.default, lower = "enum")
              ELSE [text |-> "", sql |-> FALSE]
      df == IF options.default # NONE THEN ".default(" \o dflt.text \o ")" ELSE ""
      imports3 == IF dflt.sql THEN addImportToMap(imports2, "drizzle-orm", "sql") ELSE imports2
      hasRef == Truthy(options.references)
      rf == IF hasRef
            THEN ".references(() => " \o options.references.table \o "."
                 \o options.references.column \o ")"
            ELSE ""
      imports4 == IF hasRef
                  THEN addImportToMap(imports3, "../tables/index.js", options.references.table)
                  ELSE imports3
  IN [column |-> call \o pk \o nn \o df \o rf \o ",",
      imports |-> imports4,
      tables |-> IF hasRef THEN <<options.references.table>> ELSE <<>>,
      error |-> NONE]

-----------------------------------------------------------------------------
(* src/unnamed/part_003 SchemaReader: the column decoder *)

\* typeMap of parseColumnType, in the order of its entries.
ReaderTypeMap ==
  << <<"serial", "serial">>, <<"varchar", "string">>, <<"text", "text">>,
     <<"integer", "number">>, <<"bigint", "bigint">>, <<"boolean", "boolean">>,
     <<"timestamp", "date">>, <<"jsonb", "json">>, <<"uuid", "uuid">> >>

\* typeMap[key], NONE for a key the map does not hold.
ReaderType(key) ==
  LET at == {i \in 1..Len(ReaderTypeMap) : ReaderTypeMap[i][1] = key}
  IN IF at = {} THEN NONE ELSE S(ReaderTypeMap[First(at)][2])

\* definition.match(/^(\w+)\(/): group 1, NONE without a match.
EnumMatch(definition) ==
  LET e == RunEnd(definition, 1, WordChars)
  IN IF e >= 1 /\ At(definition, e + 1) = "(" THEN S(SubSeq(definition, 1, e)) ELSE NONE

\* definition.match(/\.default\('([^']+)'\)/): group 1, NONE without a match.
QuotedDefaultMatch(definition) ==
  LET open == ".default('"
      start(p) == p + Len(open)
      close(p) == IndexFrom(definition, "'", start(p))
      p0 == First({p \in Occurrences(definition, open) :
                     close(p) > start(p) /\ At(definition, close(p) + 1) = ")"})
  IN IF p0 = 0 THEN NONE ELSE S(SubSeq(definition, start(p0), close(p0) - 1))

\* definition.match(/\.default\(([^)]+)\)/): group 1, NONE without a match.
DefaultMatch(definition) ==
  LET open == ".default("
      start(p) == p + Len(open)
      close(p) == IndexFrom(definition, ")", start(p))
      p0 == First({p \in Occurrences(definition, open) : close(p) > start(p)})
  IN IF p0 = 0 THEN NONE ELSE S(SubSeq(definition, start(p0), close(p0) - 1))

\* definition.match(/\{ length: (\d+) \}/): group 1, NONE without a match.
LengthMatch(definition) ==
  LET open == "{ length: "
      start(p) == p + Len(open)
      e(p) == RunEnd(definition, start(p), DigitChars)
      p0 == First({p \in Occurrences(definition, open) :
                     e(p) >= start(p) /\ SubSeq(definition, e(p) + 1, e(p) + 2) = " }"})
  IN IF p0 = 0 THEN NONE ELSE S(SubSeq(definition, start(p0), e(p0)))

\* defaultValue.match(/sql`([^`]+)`/): group 1, NONE without a match.
SqlMatch(defaultValue) ==
  LET open == "sql" \o BT
      start(p) == p + Len(open)
      close(p) == IndexFrom(defaultValue, BT, start(p))
      p0 == First({p \in Occurrences(defaultValue, open) : close(p) > start(p)})
  IN IF p0 = 0 THEN NONE ELSE S(SubSeq(defaultValue, start(p0), close(p0) - 1))

\* definition.match(/\.references\(\(\) => (\w+)\.(\w+)\)/): groups 1 and 2.
ReferencesMatch(definition) ==
  LET open == ".references(() => "
      start(p) == p + Len(open)
      e1(p) == RunEnd(definition, start(p), WordChars)
      e2(p) == RunEnd(definition, e1(p) + 2, WordChars)
      p0 == First({p \in Occurrences(definition, open) :
                     /\ e1(p) >= start(p)
                     /\ At(definition, e1(p) + 1) = "."
                     /\ e2(p) >= e1(p) + 2
                     /\ At(definition, e2(p) + 1) = ")"})
  IN IF p0 = 0 THEN NONE
     ELSE Ref(SubSeq(definition, start(p0), e1(p0)), SubSeq(definition, e1(p0) + 2, e2(p0)))

\* Lines 501-518: the default of a column of a known type.
ParseDefault(definition) ==
  LET defaultMatch == DefaultMatch(definition)
  IN IF ~Includes(definition, ".default(") \/ defaultMatch = NONE THEN NONE
     ELSE LET defaultValue == defaultMatch.s
          IN IF defaultValue = "true" \/ defaultValue = "false" THEN B(defaultValue = "true")
             ELSE IF AllDigits(defaultValue) THEN N(ParseInt(defaultValue))
             ELSE IF Includes(defaultValue, "sql" \o BT)
               THEN (IF SqlMatch(defaultValue) = NONE THEN NONE
                     ELSE S("sql." \o SqlMatch(defaultValue).s \o "()"))
             ELSE S(RemoveChar(defaultValue, "'"))

parseColumnType(definition) ==
  LET enumMatch == EnumMatch(definition)
  IN
  IF enumMatch # NONE /\ ReaderType(enumMatch.s) = NONE
  THEN [type |-> NONE,
        options |->
          [NoOptions EXCEPT
             !.enumValues = enumMatch,
             !.default = IF Includes(definition, ".default(")
                            /\ QuotedDefaultMatch(definition) # NONE
                         THEN S(ToLowerCase(QuotedDefaultMatch(definition).s))
                         ELSE NONE,
             !.notNull = IF Includes(definition, ".notNull()") THEN B(TRUE) ELSE NONE]]
  ELSE
  LET starts == {i \in 1..Len(ReaderTypeMap) : StartsWith(definition, ReaderTypeMap[i][1] \o "(")}
  IN [type |-> IF starts = {} THEN NONE ELSE S(ReaderTypeMap[First(starts)][2]),
      options |->
        [NoOptions EXCEPT
           !.length = IF Includes(definition, "{ length:") /\ LengthMatch(definition) # NONE
                      THEN N(ParseInt(LengthMatch(definition).s)) ELSE NONE,
           !.primaryKey = IF Includes(definition, ".primaryKey()") THEN B(TRUE) ELSE NONE,
           !.notNull = IF Includes(definition, ".notNull()") THEN B(TRUE) ELSE NONE,
           !.default = ParseDefault(definition),
           !.references = IF Includes(definition, ".references(")
                          THEN ReferencesMatch(definition) ELSE NONE]]

\* cleanLine.match(/(\w+):\s*(.+)/): groups 1 and 2 of the leftmost match, NONE
\* without a match.
ColumnLineMatch(cleanLine) ==
  LET nameEnd(i) == RunEnd(cleanLine, i, WordChars)
      \* \s* is greedy and gives characters back until "." can match one
      defStart(i) == Last({d \in (nameEnd(i) + 2)..(RunEnd(cleanLine, nameEnd(i) + 2, SpaceChars) + 1) :
                             d <= Len(cleanLine) /\ IsDot(At(cleanLine, d))})
      i0 == First({i \in 1..Len(cleanLine) :
                     /\ IsWord(At(cleanLine, i))
                     /\ At(cleanLine, nameEnd(i) + 1) = ":"
                     /\ defStart(i) # 0})
  IN IF i0 = 0 THEN NONE
     ELSE [k |-> "match",
           name |-> SubSeq(cleanLine, i0, nameEnd(i0)),
           definition |-> SubSeq(cleanLine, defStart(i0), RunUntil(cleanLine, defStart(i0), LineTerminators))]

\* parseColumnDefinition: the column of a line, NONE when the line holds none.
\* A column whose options object would be empty carries NoOptions.
parseColumnDefinition(line) ==
  LET cleanLine == IF EndsWith(line, ",") THEN SubSeq(line, 1, Len(line) - 1) ELSE line
      columnMatch == ColumnLineMatch(cleanLine)
  IN IF columnMatch = NONE THEN NONE
     ELSE LET typeResult == parseColumnType(columnMatch.definition)
          IN [name |-> columnMatch.name, type |-> typeResult.type, options |-> typeResult.options]

-----------------------------------------------------------------------------
(* src/src/generators/HelperGenerator.ts EnumGenerator, src/unnamed/part_005 *)
(* generateEnums, src/unnamed/part_003 parseEnumContent                     *)

QuotePascal(values) == [i \in 1..Len(values) |-> "'" \o PascalCase(values[i]) \o "'"]

EnumGenerator(definition) ==
  IF definition.name = "" \/ Len(definition.values) = 0
  THEN [enumCode |-> "", error |-> S("Enum name and values are mandatory.")]
  ELSE [enumCode |-> "export const " \o definition.name \o " = pgEnum('"
                     \o SnakeCase(definition.name) \o "', ["
                     \o Join(QuotePascal(definition.values), ", ") \o "] as const);",
        error |-> NONE]

\* The content of the file generateEnums writes: the import statement of
\* { "drizzle-orm/pg-core": ["pgEnum"] }, a blank line, the enum code.
EnumFileContent(enumCode) ==
  "import { pgEnum } from 'drizzle-orm/pg-core';" \o "\n\n" \o enumCode \o "\n"

\* content.match(/export const (\w+) = pgEnum\('([^']+)', \[([^\]]+)\] as const\);/):
\* groups 1 and 3 of the leftmost match, NONE without a match.
EnumContentMatch(content) ==
  LET open == "export const "
      mid == " = pgEnum('"
      sep == "', ["
      close == "] as const);"
      n1(p) == p + Len(open)
      e1(p) == RunEnd(content, n1(p), WordChars)
      n2(p) == e1(p) + 1 + Len(mid)
      e2(p) == RunUntil(content, n2(p), {"'"})
      n3(p) == e2(p) + 1 + Len(sep)
      e3(p) == RunUntil(content, n3(p), {"]"})
      p0 == First({p \in Occurrences(content, open) :
                     /\ e1(p) >= n1(p)
                     /\ SubSeq(content, e1(p) + 1, n2(p) - 1) = mid
                     /\ e2(p) >= n2(p)
                     /\ SubSeq(content, e2(p) + 1, n3(p) - 1) = sep
                     /\ e3(p) >= n3(p)
                     /\ SubSeq(content, e3(p) + 1, e3(p) + Len(close)) = close})
  IN IF p0 = 0 THEN NONE
     ELSE [k |-> "match", name |-> SubSeq(content, n1(p0), e1(p0)),
           valuesString |-> SubSeq(content, n3(p0), e3(p0))]

\* valuesString.match(/'([^']+)'/g) from position `from` on: the matched
\* texts, quotes included, left to right.
RECURSIVE QuotedValues(_, _)
QuotedValues(valuesString, from) ==
  LET close(p) == IndexFrom(valuesString, "'", p + 1)
      p0 == First({p \in from..Len(valuesString) :
                     At(valuesString, p) = "'" /\ close(p) > p + 1})
  IN IF p0 = 0 THEN <<>>
     ELSE <<SubSeq(valuesString, p0, close(p0))>> \o QuotedValues(valuesString, close(p0) + 1)

\* parseEnumContent: the enum read from a file's content and the errors pushed.
parseEnumContent(content, filename) ==
  LET enumMatch == EnumContentMatch(content)
  IN IF enumMatch = NONE
     THEN [def |-> NONE, errors |-> <<"Could not parse enum in " \o filename>>]
     ELSE LET valuesMatch == QuotedValues(enumMatch.valuesString, 1)
          IN IF valuesMatch = <<>>
             THEN [def |-> NONE, errors |-> <<"Could not parse enum values in " \o filename>>]
             ELSE [def |-> [name |-> enumMatch.name,
                            values |-> [i \in 1..Len(valuesMatch) |->
                                          SnakeCase(RemoveChar(valuesMatch[i], "'"))]],
                   errors |-> <<>>]

-----------------------------------------------------------------------------
(* src/unnamed/part_003 SchemaReader: helper files and table files          *)
(*                                                                         *)
(* CHOOSE r \in {F(x) : x \in {e}} : TRUE is F(e) with e evaluated once.     *)

\* s.trim()
Trim(s) ==
  LET inked == {i \in 1..Len(s) : ~IsSpace(At(s, i))}
  IN IF inked = {} THEN "" ELSE SubSeq(s, First(inked), Last(inked))

\* content.match(/export const (\w+) = \{([\s\S]*?)\};/): groups 1 and 2 of
\* the leftmost match, NONE without a match.
HelperContentMatch(content) ==
  LET open == "export const "
      mid == " = {"
      n1(p) == p + Len(open)
      e1(p) == RunEnd(content, n1(p), WordChars)
      n2(p) == e1(p) + 1 + Len(mid)
      close(p) == IndexFrom(content, "};", n2(p))
      p0 == First({p \in Occurrences(content, open) :
                     /\ e1(p) >= n1(p)
                     /\ SubSeq(content, e1(p) + 1, n2(p) - 1) = mid
                     /\ close(p) # 0})
  IN IF p0 = 0 THEN NONE
     ELSE [k |-> "match", name |-> SubSeq(content, n1(p0), e1(p0)),
           bodyContent |-> SubSeq(content, n2(p0), close(p0) - 1)]

HelperColumnStops == {",", "\n", "}"}

\* bodyContent.match(/(\w+):\s*([^,\n}]+)/g) from position `from` on: the
\* matched texts, left to right.
RECURSIVE HelperColumnMatches(_, _)
HelperColumnMatches(bodyContent, from) ==
  LET nameEnd(i) == RunEnd(bodyContent, i, WordChars)
      \* \s* is greedy and gives characters back until [^,\n}] can match one
      valueStart(i) ==
        Last({d \in (nameEnd(i) + 2)..(RunEnd(bodyContent, nameEnd(i) + 2, SpaceChars) + 1) :
                d <= Len(bodyContent) /\ At(bodyContent, d) \notin HelperColumnStops})
      i0 == First({i \in from..Len(bodyContent) :
                     /\ IsWord(At(bodyContent, i))
                     /\ At(bodyContent, nameEnd(i) + 1) = ":"
                     /\ valueStart(i) # 0})
      end == RunUntil(bodyContent, valueStart(i0), HelperColumnStops)
  IN IF i0 = 0 THEN <<>>
     ELSE CHOOSE all \in {<<SubSeq(bodyContent, i0, e)>> \o HelperColumnMatches(bodyContent, e + 1) :
                            e \in {end}} : TRUE

\* The columns that parseColumnDefinition returns for the texts, in order.
ParsedColumns(texts) ==
  LET columns == [i \in 1..Len(texts) |-> parseColumnDefinition(texts[i])]
  IN SelectSeq(columns, LAMBDA c : c # NONE)

\* parseHelperColumns: the columns read from a helper body and the errors
\* pushed.
parseHelperColumns(bodyContent, filename) ==
  LET columnMatches == HelperColumnMatches(bodyContent, 1)
  IN IF columnMatches = <<>>
     THEN [columns |-> <<>>,
           errors |-> <<"Could not parse helper columns in " \o filename>>]
     ELSE [columns |-> ParsedColumns(columnMatches), errors |-> <<>>]

\* parseHelperContent: the helper read from a file's content and the errors
\* pushed.
parseHelperContent(content, filename) ==
  LET helperMatch == HelperContentMatch(content)
  IN IF helperMatch = NONE
     THEN [def |-> NONE, errors |-> <<"Could not parse helper in " \o filename>>]
     ELSE CHOOSE helper \in
            {[def |-> [name |-> helperMatch.name,
                       columns |-> parseHelperColumns(bodyContent, filename).columns],
              errors |-> parseHelperColumns(bodyContent, filename).errors] :
               bodyContent \in {helperMatch.bodyContent}} : TRUE

\* content.match(/export const (\w+) = pgTable\('([^']+)', \{([\s\S]*?)\}
\* (?:, \([^)]+\) => \(\{[\s\S]*?\}\))?\);/): groups 2 and 3 of the leftmost
\* match, NONE without a match.  The body is the shortest one after which the
\* rest of the pattern matches.
TableContentMatch(content) ==
  LET open == "export const "
      mid == " = pgTable('"
      sep == "', {"
      arrow == ") => ({"
      n1(p) == p + Len(open)
      e1(p) == RunEnd(content, n1(p), WordChars)
      n2(p) == e1(p) + 1 + Len(mid)
      e2(p) == RunUntil(content, n2(p), {"'"})
      n3(p) == e2(p) + 1 + Len(sep)
      paren(q) == IndexFrom(content, ")", q + 3)
      keyBlockAt(q) ==
        /\ SubSeq(content, q, q + 2) = ", ("
        /\ paren(q) > q + 3
        /\ SubSeq(content, paren(q), paren(q) + Len(arrow) - 1) = arrow
        /\ IndexFrom(content, "}));", paren(q) + Len(arrow)) # 0
      bodyEnd(p) == First({e \in n3(p)..Len(content) :
                             /\ At(content, e) = "}"
                             /\ \/ keyBlockAt(e + 1)
                                \/ SubSeq(content, e + 1, e + 2) = ");"})
      p0 == First({p \in Occurrences(content, open) :
                     /\ e1(p) >= n1(p)
                     /\ SubSeq(content, e1(p) + 1, n2(p) - 1) = mid
                     /\ e2(p) >= n2(p)
                     /\ SubSeq(content, e2(p) + 1, n3(p) - 1) = sep
                     /\ bodyEnd(p) # 0})
  IN IF p0 = 0 THEN NONE
     ELSE [k |-> "match", dbName |-> SubSeq(content, n2(p0), e2(p0)),
           bodyContent |-> SubSeq(content, n3(p0), bodyEnd(p0) - 1)]

\* line.match(/\.\.\.(\w+)/): group 1 of the leftmost match, NONE without one.
SpreadMatch(line) ==
  LET p0 == First({p \in Occurrences(line, "...") : IsWord(At(line, p + 3))})
  IN IF p0 = 0 THEN NONE ELSE S(SubSeq(line, p0 + 3, RunEnd(line, p0 + 3, WordChars)))

\* parseTableBody: the columns and the helper references of a table body.
parseTableBody(bodyContent) ==
  LET split == SplitChar(bodyContent, "\n")
      lines == SelectSeq([i \in 1..Len(split) |-> Trim(split[i])], LAMBDA l : l # "")
      spreads == SelectSeq(lines, LAMBDA l : StartsWith(l, "...") /\ SpreadMatch(l) # NONE)
      others == SelectSeq(lines, LAMBDA l : ~StartsWith(l, "...") /\ Includes(l, ":"))
  IN [columns |-> ParsedColumns(others),
      helperReferences |-> [i \in 1..Len(spreads) |-> SpreadMatch(spreads[i]).s]]

\* columnsString.match(/\w+\.(\w+)/g).map((m) => m.split(".")[1]) from
\* position `from` on.
RECURSIVE DottedNames(_, _)
DottedNames(columnsString, from) ==
  LET e1(i) == RunEnd(columnsString, i, WordChars)
      i0 == First({i \in from..Len(columnsString) :
                     /\ IsWord(At(columnsString, i))
                     /\ At(columnsString, e1(i) + 1) = "."
                     /\ IsWord(At(columnsString, e1(i) + 2))})
      e2 == RunEnd(columnsString, e1(i0) + 2, WordChars)
  IN IF i0 = 0 THEN <<>>
     ELSE CHOOSE all \in {<<SubSeq(columnsString, e1(i0) + 2, e)>> \o DottedNames(columnsString, e + 1) :
                            e \in {e2}} : TRUE

\* A faulty key reader that C18 must reject: the key's columns come out in
\* reverse order.
parseKeyBackwards(content) ==
  LET open == "primaryKey({ columns: ["
      close == "] })"
      n(p) == p + Len(open)
      e(p) == RunUntil(content, n(p), {"]"})
      p0 == First({p \in Occurrences(content, open) :
                     e(p) >= n(p) /\ SubSeq(content, e(p) + 1, e(p) + Len(close)) = close})
  IN IF p0 = 0 THEN <<>>
     ELSE CHOOSE names \in {[i \in 1..Len(found) |-> found[Len(found) + 1 - i]] :
                              found \in {DottedNames(SubSeq(content, n(p0), e(p0)), 1)}} : TRUE

parseCompositePrimaryKey(content) ==
  LET open == "primaryKey({ columns: ["
      close == "] })"
      n(p) == p + Len(open)
      e(p) == RunUntil(content, n(p), {"]"})
      p0 == First({p \in Occurrences(content, open) :
                     e(p) >= n(p) /\ SubSeq(content, e(p) + 1, e(p) + Len(close)) = close})
  IN IF p0 = 0 THEN <<>>
     ELSE CHOOSE names \in {DottedNames(columnsString, 1) :
                              columnsString \in {SubSeq(content, n(p0), e(p0))}} : TRUE

\* filename.replace(".ts", "")
StripTs(filename) ==
  LET i == IndexFrom(filename, ".ts", 1)
  IN IF i = 0 THEN filename ELSE SubSeq(filename, 1, i - 1) \o From(filename, i + 3)

\* parseTableContent: the table read from a file's content and the errors
\* pushed.  An absent dbName is NONE; absent helperReferences and an absent
\* compositePrimaryKey are the empty list.
parseTableContent(content, filename) ==
  LET tableMatch == TableContentMatch(content)
      name == StripTs(filename)
  IN IF tableMatch = NONE
     THEN [def |-> NONE, errors |-> <<"Could not parse table in " \o filename>>]
     ELSE CHOOSE table \in
            {[def |-> [name |-> name,
                       columns |-> body.columns,
                       dbName |-> IF tableMatch.dbName # ToLowerCase(name)
                                  THEN S(tableMatch.dbName) ELSE NONE,
                       helperReferences |-> body.helperReferences,
                       compositePrimaryKey |-> parseCompositePrimaryKey(content)],
              errors |-> <<>>] :
               body \in {parseTableBody(bodyContent) :
                            bodyContent \in {tableMatch.bodyContent}}} : TRUE

-----------------------------------------------------------------------------
(* src/unnamed/part_006 SchemaChangeDetector: the diff engine               *)
(*                                                                         *)
(* A schema is [enums, helpers, tables], each a sequence (an absent list is *)
(* read as `|| []`); a table is [name, columns, helperReferences,           *)
(* compositePrimaryKey] with an absent list again the empty sequence.       *)

\* [...seqs].flat(): the concatenation of a sequence of sequences.
RECURSIVE Flatten(_)
Flatten(seqs) == IF seqs = <<>> THEN <<>> ELSE Head(seqs) \o Flatten(Tail(seqs))

\* `${v}` of a value in a template literal.
Template(v) ==
  CASE v.k = "undefined" -> "undefined"
    [] v.k = "boolean" -> (IF v.b THEN "true" ELSE "false")
    [] v.k = "number" -> NumToStr(v.n)
    [] v.k = "string" -> v.s
    [] OTHER -> "[object Object]"

HasName(entities, name) == \E i \in 1..Len(entities) : entities[i].name = name

\* entities.find((e) => e.name === name): the first entity of that name.
FindByName(entities, name) ==
  entities[First({i \in 1..Len(entities) : entities[i].name = name})]

\* [...new Set(items)]: the items in the order of their first occurrence.
SetOrder(items) ==
  LET firsts == {i \in 1..Len(items) : \A j \in 1..(i - 1) : items[j] # items[i]}
      nth(n) == CHOOSE i \in firsts : Cardinality({j \in firsts : j < i}) = n - 1
  IN [n \in 1..Cardinality(firsts) |-> items[nth(n)]]

Has(items, x) == \E i \in 1..Len(items) : items[i] = x

\* [...new Map(columns.map((c) => [c.name, c]))]: one entry per name, in the
\* order of the names' first occurrence, holding the last column of that name.
ColumnMap(columns) ==
  LET names == SetOrder([i \in 1..Len(columns) |-> columns[i].name])
  IN [n \in 1..Len(names) |->
        columns[Last({i \in 1..Len(columns) : columns[i].name = names[n]})]]

Target(type, name, column) == [type |-> type, name |-> name, column |-> column]

Change(type, category, impact, description, target, details) ==
  [type |-> type, category |-> category, impact |-> impact, description |-> description,
   target |-> target, details |-> details]

compareEnumValues(currentEnum, newEnum) ==
  Flatten([i \in 1..Len(newEnum.values) |->
             IF ~Has(currentEnum.values, newEnum.values[i])
             THEN <<Change("enum_value_added", "addition", "safe",
                           "Added value '" \o newEnum.values[i] \o "' to enum '"
                           \o newEnum.name \o "'",
                           Target("enum", newEnum.name, NONE),
                           [value |-> newEnum.values[i]])>>
             ELSE <<>>])
  \o
  Flatten([i \in 1..Len(currentEnum.values) |->
             IF ~Has(newEnum.values, currentEnum.values[i])
             THEN <<Change("enum_value_removed", "removal", "breaking",
                           "Removed value '" \o currentEnum.values[i] \o "' from enum '"
                           \o newEnum.name \o "'",
                           Target("enum", newEnum.name, NONE),
                           [value |-> currentEnum.values[i]])>>
             ELSE <<>>])

compareEnums(currentEnums, newEnums) ==
  Flatten([i \in 1..Len(newEnums) |->
             IF ~HasName(currentEnums, newEnums[i].name)
             THEN <<Change("enum_added", "addition", "safe",
                           "Added enum '" \o newEnums[i].name \o "' with values: "
                           \o Join(newEnums[i].values, ", "),
                           Target("enum", newEnums[i].name, NONE),
                           [values |-> newEnums[i].values])>>
             ELSE <<>>])
  \o
  Flatten([i \in 1..Len(currentEnums) |->
             IF ~HasName(newEnums, currentEnums[i].name)
             THEN <<Change("enum_removed", "removal", "breaking",
                           "Removed enum '" \o currentEnums[i].name \o "'",
                           Target("enum", currentEnums[i].name, NONE), NONE)>>
             ELSE <<>>])
  \o
  Flatten([i \in 1..Len(newEnums) |->
             IF HasName(currentEnums, newEnums[i].name)
             THEN compareEnumValues(FindByName(currentEnums, newEnums[i].name), newEnums[i])
             ELSE <<>>])

\* A faulty rating that C5 must reject: every NOT NULL change a warning.
NotNullAlwaysWarning(newOptions) == "warning"

\* const impact = newOptions.notNull ? WARNING : SAFE
NotNullChangeImpact(newOptions) == IF Truthy(newOptions.notNull) THEN "warning" ELSE "safe"

compareColumnDefinitions(currentColumn, newColumn, targetType, targetName) ==
  LET where == "' in " \o targetType \o " '" \o targetName \o "'"
      target == Target(targetType, targetName, S(newColumn.name))
      currentOptions == currentColumn.options
      newOptions == newColumn.options
  IN
  (IF currentColumn.type # newColumn.type
   THEN <<Change("column_type_changed", "modification", "breaking",
                 "Changed column '" \o newColumn.name \o "' type from '"
                 \o Template(currentColumn.type) \o "' to '" \o Template(newColumn.type)
                 \o where,
                 target, [from |-> currentColumn.type, to |-> newColumn.type])>>
   ELSE <<>>)
  \o
  (IF currentOptions.primaryKey # newOptions.primaryKey
   THEN <<Change("column_primary_key_changed", "modification", "breaking",
                 (IF Truthy(newOptions.primaryKey) THEN "Added" ELSE "Removed")
                 \o " primary key on column '" \o newColumn.name \o where,
                 target, NONE)>>
   ELSE <<>>)
  \o
  (IF currentOptions.notNull # newOptions.notNull
   THEN <<Change("column_not_null_changed", "modification",
                 NotNullChangeImpact(newOptions),
                 (IF Truthy(newOptions.notNull) THEN "Added NOT NULL constraint"
                                                ELSE "Removed NOT NULL constraint")
                 \o " on column '" \o newColumn.name \o where,
                 target, NONE)>>
   ELSE <<>>)
  \o
  \* JSON.stringify is one-to-one on undefined, booleans, integers and strings
  (IF currentOptions.default # newOptions.default
   THEN <<Change("column_default_changed", "modification", "safe",
                 "Changed default value for column '" \o newColumn.name \o where,
                 target, [from |-> currentOptions.default, to |-> newOptions.default])>>
   ELSE <<>>)

\* compareHelperColumns and compareTableColumns differ in the change types,
\* in the impact of an addition and of a removal, and in the text.
compareHelperColumns(currentHelper, newHelper) ==
  LET currentColumns == ColumnMap(currentHelper.columns)
      newColumns == ColumnMap(newHelper.columns)
  IN
  Flatten([i \in 1..Len(newColumns) |->
             IF ~HasName(currentColumns, newColumns[i].name)
             THEN <<Change("helper_column_added", "addition", "safe",
                           "Added column '" \o newColumns[i].name \o "' to helper '"
                           \o newHelper.name \o "'",
                           Target("helper", newHelper.name, S(newColumns[i].name)), NONE)>>
             ELSE <<>>])
  \o
  Flatten([i \in 1..Len(currentColumns) |->
             IF ~HasName(newColumns, currentColumns[i].name)
             THEN <<Change("helper_column_removed", "removal", "warning",
                           "Removed column '" \o currentColumns[i].name \o "' from helper '"
                           \o newHelper.name \o "'",
                           Target("helper", newHelper.name, S(currentColumns[i].name)), NONE)>>
             ELSE <<>>])
  \o
  Flatten([i \in 1..Len(newColumns) |->
             IF HasName(currentColumns, newColumns[i].name)
             THEN compareColumnDefinitions(FindByName(currentColumns, newColumns[i].name),
                                           newColumns[i], "helper", newHelper.name)
             ELSE <<>>])

compareHelpers(currentHelpers, newHelpers) ==
  Flatten([i \in 1..Len(newHelpers) |->
             IF ~HasName(currentHelpers, newHelpers[i].name)
             THEN <<Change("helper_added", "addition", "safe",
                           "Added helper '" \o newHelpers[i].name \o "' with "
                           \o NumToStr(Len(newHelpers[i].columns)) \o " columns",
                           Target("helper", newHelpers[i].name, NONE), NONE)>>
             ELSE <<>>])
  \o
  Flatten([i \in 1..Len(currentHelpers) |->
             IF ~HasName(newHelpers, currentHelpers[i].name)
             THEN <<Change("helper_removed", "removal", "warning",
                           "Removed helper '" \o currentHelpers[i].name \o "'",
                           Target("helper", currentHelpers[i].name, NONE), NONE)>>
             ELSE <<>>])
  \o
  Flatten([i \in 1..Len(newHelpers) |->
             IF HasName(currentHelpers, newHelpers[i].name)
             THEN compareHelperColumns(FindByName(currentHelpers, newHelpers[i].name),
                                       newHelpers[i])
             ELSE <<>>])

\* A faulty rating that C9 must reject: every added column safe.
AddedColumnAlwaysSafe(col) == "safe"

\* const impact = col.options?.notNull ? WARNING : SAFE
AddedColumnImpact(col) == IF Truthy(col.options.notNull) THEN "warning" ELSE "safe"

compareTableColumns(currentTable, newTable) ==
  LET currentColumns == ColumnMap(currentTable.columns)
      newColumns == ColumnMap(newTable.columns)
  IN
  Flatten([i \in 1..Len(newColumns) |->
             IF ~HasName(currentColumns, newColumns[i].name)
             THEN <<Change("table_column_added", "addition",
                           AddedColumnImpact(newColumns[i]),
                           "Added column '" \o newColumns[i].name \o "' to table '"
                           \o newTable.name \o "'"
                           \o (IF Truthy(newColumns[i].options.notNull)
                               THEN " (NOT NULL - requires default or data migration)"
                               ELSE ""),
                           Target("table", newTable.name, S(newColumns[i].name)), NONE)>>
             ELSE <<>>])
  \o
  Flatten([i \in 1..Len(currentColumns) |->
             IF ~HasName(newColumns, currentColumns[i].name)
             THEN <<Change("table_column_removed", "removal", "breaking",
                           "Removed column '" \o currentColumns[i].name \o "' from table '"
                           \o newTable.name \o "'",
                           Target("table", newTable.name, S(currentColumns[i].name)), NONE)>>
             ELSE <<>>])
  \o
  Flatten([i \in 1..Len(newColumns) |->
             IF HasName(currentColumns, newColumns[i].name)
             THEN compareColumnDefinitions(FindByName(currentColumns, newColumns[i].name),
                                           newColumns[i], "table", newTable.name)
             ELSE <<>>])

compareHelperReferences(currentTable, newTable) ==
  LET currentRefs == SetOrder(currentTable.helperReferences)
      newRefs == SetOrder(newTable.helperReferences)
  IN
  Flatten([i \in 1..Len(newRefs) |->
             IF ~Has(currentRefs, newRefs[i])
             THEN <<Change("table_helper_reference_added", "addition", "safe",
                           "Added helper reference '" \o newRefs[i] \o "' to table '"
                           \o newTable.name \o "'",
                           Target("table", newTable.name, NONE),
                           [helperReference |-> newRefs[i]])>>
             ELSE <<>>])
  \o
  Flatten([i \in 1..Len(currentRefs) |->
             IF ~Has(newRefs, currentRefs[i])
             THEN <<Change("table_helper_reference_removed", "removal", "warning",
                           "Removed helper reference '" \o currentRefs[i] \o "' from table '"
                           \o newTable.name \o "'",
                           Target("table", newTable.name, NONE),
                           [helperReference |-> currentRefs[i]])>>
             ELSE <<>>])

\* A faulty comparison that C10 must reject: the key lists compared in order.
comparePrimaryKeysInOrder(currentTable, newTable) ==
  IF currentTable.compositePrimaryKey # newTable.compositePrimaryKey
  THEN <<Change("table_composite_primary_key_changed", "modification", "breaking",
                "Changed composite primary key for table '" \o newTable.name \o "'",
                Target("table", newTable.name, NONE),
                [from |-> currentTable.compositePrimaryKey,
                 to |-> newTable.compositePrimaryKey])>>
  ELSE <<>>

compareCompositePrimaryKeys(currentTable, newTable) ==
  LET currentPK == SetOrder(currentTable.compositePrimaryKey)
      newPK == SetOrder(newTable.compositePrimaryKey)
  IN IF Len(currentPK) # Len(newPK) \/ \E i \in 1..Len(currentPK) : ~Has(newPK, currentPK[i])
     THEN <<Change("table_composite_primary_key_changed", "modification", "breaking",
                   "Changed composite primary key for table '" \o newTable.name \o "'",
                   Target("table", newTable.name, NONE),
                   [from |-> currentPK, to |-> newPK])>>
     ELSE <<>>

compareTableStructure(currentTable, newTable) ==
  compareTableColumns(currentTable, newTable)
  \o compareHelperReferences(currentTable, newTable)
  \o compareCompositePrimaryKeys(currentTable, newTable)

compareTables(currentTables, newTables) ==
  Flatten([i \in 1..Len(newTables) |->
             IF ~HasName(currentTables, newTables[i].name)
             THEN <<Change("table_added", "addition", "safe",
                           "Added table '" \o newTables[i].name \o "' with "
                           \o NumToStr(Len(newTables[i].columns)) \o " columns",
                           Target("table", newTables[i].name, NONE), NONE)>>
             ELSE <<>>])
  \o
  Flatten([i \in 1..Len(currentTables) |->
             IF ~HasName(newTables, currentTables[i].name)
             THEN <<Change("table_removed", "removal", "breaking",
                           "Removed table '" \o currentTables[i].name \o "'",
                           Target("table", currentTables[i].name, NONE), NONE)>>
             ELSE <<>>])
  \o
  Flatten([i \in 1..Len(newTables) |->
             IF HasName(currentTables, newTables[i].name)
             THEN compareTableStructure(FindByName(currentTables, newTables[i].name),
                                        newTables[i])
             ELSE <<>>])

Count(changes, field, value) ==
  Cardinality({i \in 1..Len(changes) : changes[i][field] = value})

Categories == {"addition", "modification", "removal"}
Impacts == {"safe", "warning", "breaking"}

\* A faulty summary that C26 must reject: byType records that a type occurs,
\* not how often.
generateSummaryOfTypes(changes) ==
  [totalChanges |-> Len(changes),
   byCategory |-> [c \in Categories |-> Count(changes, "category", c)],
   byImpact |-> [m \in Impacts |-> Count(changes, "impact", m)],
   byType |-> [t \in {changes[i].type : i \in 1..Len(changes)} |-> 1]]

generateSummary(changes) ==
  [totalChanges |-> Len(changes),
   byCategory |-> [c \in Categories |-> Count(changes, "category", c)],
   byImpact |-> [m \in Impacts |-> Count(changes, "impact", m)],
   byType |-> [t \in {changes[i].type : i \in 1..Len(changes)} |-> Count(changes, "type", t)]]

\* The recommendation texts, without the emoji that starts each of them.
generateRecommendations(changes) ==
  LET breaking == Count(changes, "impact", "breaking")
      warning == Count(changes, "impact", "warning")
      safe == Count(changes, "impact", "safe")
      some(ok) == \E i \in 1..Len(changes) : ok[i]
      tableRemovals == [i \in 1..Len(changes) |->
                          changes[i].impact = "breaking" /\ changes[i].type = "table_removed"]
      columnRemovals == [i \in 1..Len(changes) |->
                           changes[i].impact = "breaking"
                           /\ Includes(changes[i].type, "column_removed")]
      notNullAdditions == [i \in 1..Len(changes) |->
                             changes[i].impact = "warning"
                             /\ Includes(changes[i].description, "NOT NULL")]
  IN
  (IF breaking > 0
   THEN <<NumToStr(breaking) \o " breaking changes detected. Consider creating a migration plan.">>
        \o (IF some(tableRemovals)
            THEN <<"Back up data for removed tables before applying changes.">> ELSE <<>>)
        \o (IF some(columnRemovals)
            THEN <<"Plan data migration for removed columns.">> ELSE <<>>)
   ELSE <<>>)
  \o
  (IF warning > 0
   THEN <<NumToStr(warning) \o " changes require attention. Review before applying.">>
        \o (IF some(notNullAdditions)
            THEN <<"Add default values or populate data for new NOT NULL columns.">>
            ELSE <<>>)
   ELSE <<>>)
  \o
  (IF safe > 0
   THEN <<NumToStr(safe) \o " safe changes can be applied automatically.">> ELSE <<>>)
  \o
  (IF Len(changes) = 0
   THEN <<"No changes detected. Schemas are identical.">> ELSE <<>>)

\* A faulty traversal that C6 must reject: the tables compared first.
compareTablesFirst(currentSchema, newSchema) ==
  LET changes == compareTables(currentSchema.tables, newSchema.tables)
                 \o compareEnums(currentSchema.enums, newSchema.enums)
                 \o compareHelpers(currentSchema.helpers, newSchema.helpers)
  IN [changes |-> changes,
      summary |-> generateSummary(changes),
      recommendations |-> generateRecommendations(changes),
      canApply |-> [safe |-> \E i \in 1..Len(changes) : changes[i].impact = "safe",
                    withWarnings |-> \E i \in 1..Len(changes) : changes[i].impact = "warning",
                    withBreaking |-> \E i \in 1..Len(changes) : changes[i].impact = "breaking"]]

compareSchemas(currentSchema, newSchema) ==
  LET changes == compareEnums(currentSchema.enums, newSchema.enums)
                 \o compareHelpers(currentSchema.helpers, newSchema.helpers)
                 \o compareTables(currentSchema.tables, newSchema.tables)
  IN [changes |-> changes,
      summary |-> generateSummary(changes),
      recommendations |-> generateRecommendations(changes),
      canApply |-> [safe |-> \E i \in 1..Len(changes) : changes[i].impact = "safe",
                    withWarnings |-> \E i \in 1..Len(changes) : changes[i].impact = "warning",
                    withBreaking |-> \E i \in 1..Len(changes) : changes[i].impact = "breaking"]]

\* A faulty decision that C3 must reject: whatever is not breaking is applied.
shouldApplyUnlessBreaking(change, allowBreaking, allowWarning) ==
  IF change.impact = "breaking" THEN allowBreaking ELSE TRUE

shouldApplyChange(change, allowBreaking, allowWarning) ==
  CASE change.impact = "safe" -> TRUE
    [] change.impact = "warning" -> allowWarning
    [] change.impact = "breaking" -> allowBreaking
    [] OTHER -> FALSE

\* const { name = fallback } = options: the fallback replaces an absent option.
OptionOr(option, fallback) == IF option = NONE THEN fallback ELSE option.b

\* A faulty gate that C11 must reject: the applied changes are handed to
\* applyChangesToFiles even in a dry run.
applyIgnoringDryRun(projectPath, comparison, options, calls) ==
  LET allowBreaking == OptionOr(options.allowBreaking, FALSE)
      allowWarning == OptionOr(options.allowWarning, TRUE)
      applied == SelectSeq(comparison.changes,
                           LAMBDA c : shouldApplyChange(c, allowBreaking, allowWarning))
      rejected == SelectSeq(comparison.changes,
                            LAMBDA c : ~shouldApplyChange(c, allowBreaking, allowWarning))
  IN [result |-> [applied |-> applied,
                  rejected |-> rejected,
                  metadata |-> [totalChanges |-> Len(comparison.changes),
                                appliedCount |-> Len(applied),
                                rejectedCount |-> Len(rejected),
                                dryRun |-> OptionOr(options.dryRun, FALSE)]],
      calls |-> IF Len(applied) > 0
                THEN Append(calls, [projectPath |-> projectPath, changes |-> applied])
                ELSE calls]

\* A faulty gate that C21 must reject: in a dry run nothing is applied and
\* every change is rejected.
applyNothingInDryRun(projectPath, comparison, options, calls) ==
  LET allowBreaking == OptionOr(options.allowBreaking, FALSE)
      allowWarning == OptionOr(options.allowWarning, TRUE)
      dryRun == OptionOr(options.dryRun, FALSE)
      applied == SelectSeq(comparison.changes,
                           LAMBDA c : ~dryRun /\ shouldApplyChange(c, allowBreaking, allowWarning))
      rejected == SelectSeq(comparison.changes,
                            LAMBDA c : dryRun \/ ~shouldApplyChange(c, allowBreaking, allowWarning))
  IN [result |-> [applied |-> applied,
                  rejected |-> rejected,
                  metadata |-> [totalChanges |-> Len(comparison.changes),
                                appliedCount |-> Len(applied),
                                rejectedCount |-> Len(rejected),
                                dryRun |-> dryRun]],
      calls |-> IF ~dryRun /\ Len(applied) > 0
                THEN Append(calls, [projectPath |-> projectPath, changes |-> applied])
                ELSE calls]

\* applySafeChanges(projectPath, comparison, options) on a detector whose
\* calls of applyChangesToFiles so far are `calls`: the result, and the calls
\* after it.
applySafeChanges(projectPath, comparison, options, calls) ==
  LET allowBreaking == OptionOr(options.allowBreaking, FALSE)
      allowWarning == OptionOr(options.allowWarning, TRUE)
      dryRun == OptionOr(options.dryRun, FALSE)
      applied == SelectSeq(comparison.changes,
                           LAMBDA c : shouldApplyChange(c, allowBreaking, allowWarning))
      rejected == SelectSeq(comparison.changes,
                            LAMBDA c : ~shouldApplyChange(c, allowBreaking, allowWarning))
  IN [result |-> [applied |-> applied,
                  rejected |-> rejected,
                  metadata |-> [totalChanges |-> Len(comparison.changes),
                                appliedCount |-> Len(applied),
                                rejectedCount |-> Len(rejected),
                                dryRun |-> dryRun]],
      calls |-> IF ~dryRun /\ Len(applied) > 0
                THEN Append(calls, [projectPath |-> projectPath, changes |-> applied])
                ELSE calls]

-----------------------------------------------------------------------------
(* src/unnamed/part_003 SchemaReader.readSchema over a project directory    *)
(*                                                                         *)
(* A project is NONE (no directory) or [index, enums, helpers, tables]:     *)
(* whether index.ts exists, and each subdirectory as NONE or Dir(entries),   *)
(* entries being a sequence of [file, content]; the content of an entry     *)
(* that cannot be read as a file is NONE.                                   *)

Dir(entries) == [k |-> "directory", entries |-> entries]

checkProjectExists(project) ==
  /\ project # NONE
  /\ \/ project.index
     \/ project.enums # NONE
     \/ project.helpers # NONE
     \/ project.tables # NONE

\* readdir(dir).filter((f) => f.endsWith(".ts") && f !== "index.ts"), the
\* empty list for a directory that does not exist.
SchemaFiles(dir) ==
  IF dir = NONE THEN <<>>
  ELSE LET kept == SelectSeq(dir.entries,
                             LAMBDA f : EndsWith(f.file, ".ts") /\ f.file # "index.ts")
       IN [i \in 1..Len(kept) |-> kept[i].file]

getFileStructure(project) ==
  LET enums == SchemaFiles(project.enums)
      helpers == SchemaFiles(project.helpers)
      tables == SchemaFiles(project.tables)
  IN [enums |-> enums, helpers |-> helpers, tables |-> tables,
      indexes |-> <<"index.ts">>
                  \o (IF Len(enums) > 0 THEN <<"enums/index.ts">> ELSE <<>>)
                  \o (IF Len(helpers) > 0 THEN <<"helpers/index.ts">> ELSE <<>>)
                  \o (IF Len(tables) > 0 THEN <<"tables/index.ts">> ELSE <<>>)]

\* fs.readFile(join(projectPath, dir, file), "utf-8"): NONE when it throws.
ReadFile(dir, file) ==
  dir.entries[First({i \in 1..Len(dir.entries) : dir.entries[i].file = file})].content

ReadFileError == "Error: EISDIR: illegal operation on a directory, read"

\* One turn of the loop of parseEnums, parseHelpers and parseTables, after
\* readFile: what the file adds to the entities and to the errors.
ParseFile(kind, content, file) ==
  IF content = NONE
  THEN [def |-> NONE,
        errors |-> <<"Error parsing " \o kind \o " file " \o file \o ": " \o ReadFileError>>]
  ELSE CASE kind = "enum" -> parseEnumContent(content.s, file)
         [] kind = "helper" -> parseHelperContent(content.s, file)
         [] kind = "table" -> parseTableContent(content.s, file)

\* The loops of readSchema in their order: the position at or after file i
\* of a stage that holds a file, <<"done", 0>> after the last table file.
RECURSIVE Seek(_, _, _)
Seek(files, stage, i) ==
  CASE stage = "enums" ->
         IF i <= Len(files.enums) THEN <<"enums", i>> ELSE Seek(files, "helpers", 1)
    [] stage = "helpers" ->
         IF i <= Len(files.helpers) THEN <<"helpers", i>> ELSE Seek(files, "tables", 1)
    [] stage = "tables" ->
         IF i <= Len(files.tables) THEN <<"tables", i>> ELSE <<"done", 0>>

\* getMetadata(files).totalFiles
TotalFiles(project, files) ==
  IF project.index
  THEN Len(files.enums) + Len(files.helpers) + Len(files.tables) + Len(files.indexes)
  ELSE 0

\* The errors of a result: a list of its own, or the reader's list itself.
OwnErrors(list) == [k |-> "own", list |-> list]
ReaderErrors == [k |-> "reader"]

\* The result of readSchema for a project that exists.  A list of the schema
\* that is undefined (list.length > 0 ? list : undefined) is the empty list.
ReadResult(project, files, enums, helpers, tables, errors) ==
  [success |-> Len(errors) = 0,
   message |-> IF Len(errors) = 0
               THEN "Successfully read schema with " \o NumToStr(Len(enums)) \o " enums, "
                    \o NumToStr(Len(helpers)) \o " helpers, "
                    \o NumToStr(Len(tables)) \o " tables"
               ELSE "Read schema with " \o NumToStr(Len(errors)) \o " errors",
   schema |-> [enums |-> enums, helpers |-> helpers, tables |-> tables],
   files |-> files,
   errors |-> IF Len(errors) > 0 THEN ReaderErrors ELSE NONE,
   totalFiles |-> TotalFiles(project, files)]

\* The result of readSchema for a project that does not exist.
MissingResult ==
  [success |-> FALSE,
   message |-> "Project directory not found or not a valid Drizzle project",
   schema |-> NONE,
   files |-> [enums |-> <<>>, helpers |-> <<>>, tables |-> <<>>, indexes |-> <<>>],
   errors |-> OwnErrors(<<"Project directory does not exist or is not a valid Drizzle project">>),
   totalFiles |-> 0]

-----------------------------------------------------------------------------
(* src/src/utils/AddImport.ts: ImportManager.  The manager's map is the     *)
(* sequence of its [path, names] entries in insertion order.  A call binds  *)
(* the map it updates with CHOOSE r \in {F(m) : m \in {e}} : TRUE, so that    *)
(* the map is computed once per call.                                       *)

addImport(imports, importPath, importName) ==
  CHOOSE r \in {addImportToMap(m, importPath, n) : m \in {imports}, n \in {importName}} : TRUE

RECURSIVE addImports(_, _, _)
addImports(imports, importPath, importNames) ==
  IF importNames = <<>> THEN imports
  ELSE CHOOSE r \in {addImports(next, importPath, Tail(importNames)) :
                        next \in {addImport(imports, importPath, Head(importNames))}} : TRUE

RECURSIVE merge(_, _)
merge(imports, otherImports) ==
  IF otherImports = <<>> THEN imports
  ELSE CHOOSE r \in {merge(next, Tail(otherImports)) :
                        next \in {addImports(imports, Head(otherImports).path,
                                             Head(otherImports).names)}} : TRUE

\* The order of Array.prototype.sort() on identifiers: by UTF-16 code unit.
CodeUnits == Digits \o Uppers \o "_" \o Lowers
RECURSIVE StringLess(_, _)
StringLess(a, b) ==
  IF b = "" THEN FALSE
  ELSE IF a = "" THEN TRUE
  ELSE IF Head(a) = Head(b) THEN StringLess(Tail(a), Tail(b))
  ELSE Pos(CodeUnits, At(a, 1)) < Pos(CodeUnits, At(b, 1))

\* [...new Set(names)].sort()
SortNames(names) ==
  LET set == {names[i] : i \in 1..Len(names)}
      rank(x) == Cardinality({y \in set : StringLess(y, x)}) + 1
  IN [n \in 1..Cardinality(set) |-> CHOOSE x \in set : rank(x) = n]

generateImportStatements(imports) ==
  LET used == SelectSeq(imports, LAMBDA e : Len(e.names) > 0)
  IN [i \in 1..Len(used) |->
        "import { " \o Join(SortNames(used[i].names), ", ") \o " } from '"
        \o used[i].path \o "';"]

\* ImportManager.toString()
ImportsToString(imports) == Join(generateImportStatements(imports), "\n")

-----------------------------------------------------------------------------
(* src/src/generators/HelperGenerator.ts and the table generator            *)

\* The column results of the loop `for (const columnDef of columns)`.
ColumnResults(columns) == [i \in 1..Len(columns) |-> ColumnGenerator(columns[i])]

\* A faulty loop that C13 must reject: it reports the last failing column.
LastFailure(results) ==
  LET bad == {i \in 1..Len(results) : results[i].error # NONE}
  IN IF bad = {} THEN 0 ELSE Last(bad)

\* The index of the column at which the loop returns, 0 when it completes.
FirstFailure(results) ==
  LET bad == {i \in 1..Len(results) : results[i].error # NONE}
  IN IF bad = {} THEN 0 ELSE First(bad)

ColumnFailure(columnDef, columnResult) ==
  S("Error in column '" \o columnDef.name \o "': " \o columnResult.error.s)

\* columnResult.column.replace(/,$/, "") and .replace(/,+$/, "")
StripComma(code) == IF EndsWith(code, ",") THEN SubSeq(code, 1, Len(code) - 1) ELSE code
RECURSIVE StripCommas(_)
StripCommas(code) ==
  IF EndsWith(code, ",") THEN StripCommas(SubSeq(code, 1, Len(code) - 1)) ELSE code

RECURSIVE MergeAll(_, _)
MergeAll(imports, results) ==
  IF results = <<>> THEN imports
  ELSE CHOOSE r \in {MergeAll(next, Tail(results)) :
                        next \in {merge(imports, Head(results).imports)}} : TRUE

AllTables(results) == Flatten([i \in 1..Len(results) |-> results[i].tables])

HelperError(msg) == [helperCode |-> "", imports |-> <<>>, tables |-> <<>>, error |-> msg]

HelperGenerator(definition) ==
  LET name == definition.name
      columns == definition.columns
  IN
  IF name = "" \/ Trim(name) = "" THEN HelperError(S("Helper name is required."))
  ELSE IF Len(columns) = 0
  THEN HelperError(S("At least one column is required for a helper."))
  ELSE
  CHOOSE result \in {
    LET failed == FirstFailure(results)
        columnCodes == [i \in 1..Len(results) |-> "    " \o StripComma(results[i].column)]
    IN IF failed # 0 THEN HelperError(ColumnFailure(columns[failed], results[failed]))
       ELSE [helperCode |-> "export const " \o name \o " = {\n"
                            \o Join(columnCodes, ",\n") \o "\n};",
             imports |-> MergeAll(<<>>, results),
             tables |-> SetOrder(AllTables(results)),
             error |-> NONE]
    : results \in {ColumnResults(columns)}} : TRUE

\* errors.length > 0 ? errors : undefined
ErrorList(errors) == IF Len(errors) > 0 THEN [k |-> "array", items |-> errors] ELSE NONE

\* A faulty batch that C14 must reject: it stops at the first failing helper.
generateHelpersUntilFailure(definitions) ==
  CHOOSE result \in {
    LET bad == {i \in 1..Len(results) : results[i].error # NONE}
        upto == IF bad = {} THEN Len(results) ELSE First(bad)
        good == SelectSeq(SubSeq(results, 1, upto), LAMBDA r : r.error = NONE)
        failing == SelectSeq([i \in 1..upto |-> i], LAMBDA i : results[i].error # NONE)
        imports == MergeAll(<<>>, good)
        helperCodes == [i \in 1..Len(good) |-> good[i].helperCode]
    IN [helperCodes |-> helperCodes,
        imports |-> imports,
        importStatements |-> ImportsToString(imports),
        tables |-> SetOrder(AllTables(good)),
        errors |-> ErrorList([n \in 1..Len(failing) |->
                     "Error in helper '" \o definitions[failing[n]].name \o "': "
                     \o results[failing[n]].error.s]),
        fullFile |-> ImportsToString(imports) \o "\n\n" \o Join(helperCodes, "\n\n")]
    : results \in {[i \in 1..Len(definitions) |-> HelperGenerator(definitions[i])]}} : TRUE

generateMultipleHelpers(definitions) ==
  CHOOSE result \in {
    LET good == SelectSeq(results, LAMBDA r : r.error = NONE)
        failing == SelectSeq([i \in 1..Len(results) |-> i],
                             LAMBDA i : results[i].error # NONE)
        imports == MergeAll(<<>>, good)
        helperCodes == [i \in 1..Len(good) |-> good[i].helperCode]
    IN [helperCodes |-> helperCodes,
        imports |-> imports,
        importStatements |-> ImportsToString(imports),
        tables |-> SetOrder(AllTables(good)),
        errors |-> ErrorList([n \in 1..Len(failing) |->
                     "Error in helper '" \o definitions[failing[n]].name \o "': "
                     \o results[failing[n]].error.s]),
        fullFile |-> ImportsToString(imports) \o "\n\n" \o Join(helperCodes, "\n\n")]
    : results \in {[i \in 1..Len(definitions) |-> HelperGenerator(definitions[i])]}} : TRUE

TableError(msg) == [tableCode |-> "", imports |-> <<>>, tables |-> <<>>, error |-> msg]

\* A faulty constraint rule that C15 must reject: any non-empty key is emitted.
HasCompositeKeyOfOne(compositePrimaryKey) == Len(compositePrimaryKey) > 0

\* compositePrimaryKey && compositePrimaryKey.length > 1; an absent key is the
\* empty sequence.
HasCompositeKey(compositePrimaryKey) == Len(compositePrimaryKey) > 1

TableGenerator(definition) ==
  LET name == definition.name
      columns == definition.columns
      helperReferences == definition.helperReferences
      compositePrimaryKey == definition.compositePrimaryKey
  IN
  IF name = "" \/ Trim(name) = "" THEN TableError(S("Table name is required."))
  ELSE IF Len(columns) = 0 /\ Len(helperReferences) = 0
  THEN TableError(S("Table must have at least one column or helper reference."))
  ELSE
  CHOOSE result \in {
  LET failed == FirstFailure(results)
  IN
  IF failed # 0 THEN TableError(ColumnFailure(columns[failed], results[failed]))
  ELSE
  LET columnCodes == [i \in 1..Len(results) |-> "    " \o StripCommas(results[i].column)]
      imports1 == MergeAll(addImport(<<>>, "drizzle-orm/pg-core", "pgTable"), results)
      imports2 == IF Len(helperReferences) > 0
                  THEN addImports(imports1, "../helpers/index.js", helperReferences)
                  ELSE imports1
      helperSpreads == [i \in 1..Len(helperReferences) |-> "    ..." \o helperReferences[i]]
      tableName == IF Truthy(definition.dbName) THEN definition.dbName.s ELSE SnakeCase(name)
      allColumnEntries == columnCodes \o helperSpreads
      tableStructure == IF Len(allColumnEntries) > 0
                        THEN "{\n" \o Join(allColumnEntries, ",\n") \o "\n}"
                        ELSE "{}"
      tableVarName == ToLowerCase(name)
      withKey == HasCompositeKey(compositePrimaryKey)
      imports3 == IF withKey THEN addImport(imports2, "drizzle-orm/pg-core", "primaryKey")
                  ELSE imports2
      pkColumns == Join([i \in 1..Len(compositePrimaryKey) |->
                           tableVarName \o "." \o compositePrimaryKey[i]], ", ")
      compositePKCode == IF withKey
                         THEN ", (" \o tableVarName
                              \o ") => ({\n    compositePK: primaryKey({ columns: ["
                              \o pkColumns \o "] })\n})"
                         ELSE ""
  IN [tableCode |-> "export const " \o tableVarName \o " = pgTable('" \o tableName \o "', "
                    \o tableStructure \o compositePKCode \o ");",
      imports |-> imports3,
      tables |-> SetOrder(AllTables(results)),
      error |-> NONE]
  : results \in {ColumnResults(columns)}} : TRUE

generateMultipleTables(definitions) ==
  CHOOSE result \in {
    LET good == SelectSeq(results, LAMBDA r : r.error = NONE)
        failing == SelectSeq([i \in 1..Len(results) |-> i],
                             LAMBDA i : results[i].error # NONE)
        imports == MergeAll(<<>>, good)
        tableCodes == [i \in 1..Len(good) |-> good[i].tableCode]
    IN [tableCodes |-> tableCodes,
        imports |-> imports,
        importStatements |-> ImportsToString(imports),
        tables |-> SetOrder(AllTables(good)),
        errors |-> ErrorList([n \in 1..Len(failing) |->
                     "Error in table '" \o definitions[failing[n]].name \o "': "
                     \o results[failing[n]].error.s]),
        fullFile |-> ImportsToString(imports) \o "\n\n" \o Join(tableCodes, "\n\n")]
    : results \in {[i \in 1..Len(definitions) |-> TableGenerator(definitions[i])]}} : TRUE

-----------------------------------------------------------------------------
(* src/unnamed/part_005 ProjectGenerator                                    *)
(*                                                                         *)
(* The generator's state while it runs: the output directory as a project   *)
(* (see readSchema above), this.errors and this.generatedFiles.             *)

OutputDir == "./db"

EmptyOutput ==
  [project |-> [index |-> FALSE, enums |-> Dir(<<>>), helpers |-> Dir(<<>>),
                tables |-> Dir(<<>>)],
   errors |-> <<>>,
   generatedFiles |-> <<>>]

HasFile(dir, file) == \E i \in 1..Len(dir.entries) : dir.entries[i].file = file

\* fs.writeFile(filePath, content): the entry is replaced or added.
PutFile(dir, file, content) ==
  IF HasFile(dir, file)
  THEN Dir([i \in 1..Len(dir.entries) |->
              IF dir.entries[i].file = file
              THEN [file |-> file, content |-> S(content)] ELSE dir.entries[i]])
  ELSE Dir(Append(dir.entries, [file |-> file, content |-> S(content)]))

\* writeFile(join(outputDir, kind, file), content) under config.overwrite
writeFile(out, kind, file, content, overwrite) ==
  LET filePath == OutputDir \o "/" \o kind \o "/" \o file
  IN IF ~overwrite /\ HasFile(out.project[kind], file)
     THEN [out EXCEPT !.errors = Append(@, "File already exists: " \o filePath
                                           \o " (use overwrite: true to replace)")]
     ELSE [out EXCEPT !.project[kind] = PutFile(@, file, content),
                      !.generatedFiles = Append(@, filePath)]

\* writeFile(join(outputDir, "index.ts"), content)
writeMainIndex(out, overwrite) ==
  IF ~overwrite /\ out.project.index
  THEN [out EXCEPT !.errors = Append(@, "File already exists: " \o OutputDir
                                        \o "/index.ts (use overwrite: true to replace)")]
  ELSE [out EXCEPT !.project.index = TRUE,
                   !.generatedFiles = Append(@, OutputDir \o "/index.ts")]

\* The generator of a kind, its result as [code, imports, error].
GenerateEntity(kind, definition) ==
  CASE kind = "enums" ->
         CHOOSE r \in {[code |-> g.enumCode,
                        imports |-> <<[path |-> "drizzle-orm/pg-core", names |-> <<"pgEnum">>]>>,
                        error |-> g.error] : g \in {EnumGenerator(definition)}} : TRUE
    [] kind = "helpers" ->
         CHOOSE r \in {[code |-> g.helperCode, imports |-> g.imports, error |-> g.error] :
                         g \in {HelperGenerator(definition)}} : TRUE
    [] kind = "tables" ->
         CHOOSE r \in {[code |-> g.tableCode, imports |-> g.imports, error |-> g.error] :
                         g \in {TableGenerator(definition)}} : TRUE

Label(kind) ==
  CASE kind = "enums" -> "Enum" [] kind = "helpers" -> "Helper" [] kind = "tables" -> "Table"

\* `${importManager.toString()}\n\n${code}\n`
FileContent(imports, code) == ImportsToString(merge(<<>>, imports)) \o "\n\n" \o code \o "\n"

\* generateEnums, generateHelpers and generateTables: the loop from the n-th
\* definition on; the result is the generator's state and the files pushed.
RECURSIVE generateEntities(_, _, _, _, _, _)
generateEntities(kind, definitions, n, overwrite, out, files) ==
  IF n > Len(definitions) THEN [out |-> out, files |-> files]
  ELSE CHOOSE r \in
    {IF result.error # NONE
     THEN generateEntities(kind, definitions, n + 1, overwrite,
            [out EXCEPT !.errors = Append(@, Label(kind) \o " '" \o definitions[n].name
                                             \o "': " \o result.error.s)],
            files)
     ELSE CHOOSE q \in
       {generateEntities(kind, definitions, n + 1, overwrite, next,
                         Append(files, definitions[n].name \o ".ts")) :
          next \in {writeFile(out, kind, definitions[n].name \o ".ts",
                              FileContent(result.imports, result.code), overwrite)}} : TRUE
     : result \in {GenerateEntity(kind, definitions[n])}} : TRUE

IndexExports(files) ==
  Join([i \in 1..Len(files) |-> "export * from './" \o StripTs(files[i]) \o ".js';"], "\n")
  \o "\n"

\* One directory's index.ts, written when the directory received a file.
writeIndex(state, kind, files, overwrite) ==
  IF Len(files) = 0 THEN state
  ELSE CHOOSE r \in
    {[out |-> next, indexes |-> Append(state.indexes, kind \o "/index.ts")] :
       next \in {writeFile(state.out, kind, "index.ts", IndexExports(files), overwrite)}} : TRUE

\* generateIndexFiles: the generator's state and the index files pushed.
generateIndexFiles(out, enumFiles, helperFiles, tableFiles, overwrite) ==
  CHOOSE r \in
    {IF Len(enumFiles) + Len(helperFiles) + Len(tableFiles) = 0 THEN s3
     ELSE [out |-> writeMainIndex(s3.out, overwrite),
           indexes |-> Append(s3.indexes, "index.ts")] :
       s3 \in {writeIndex(writeIndex(writeIndex([out |-> out, indexes |-> <<>>],
                                                "enums", enumFiles, overwrite),
                                     "helpers", helperFiles, overwrite),
                          "tables", tableFiles, overwrite)}} : TRUE

Kinds == <<"enums", "helpers", "tables">>

\* generateEnums, generateHelpers, generateTables in this order, from the
\* k-th on: the generator's state and the files of each kind.
RECURSIVE generateKinds(_, _, _, _, _)
generateKinds(config, k, overwrite, out, files) ==
  IF k > Len(Kinds) THEN [out |-> out, files |-> files]
  ELSE CHOOSE r \in
    {generateKinds(config, k + 1, overwrite, g.out, Append(files, g.files)) :
       g \in {generateEntities(Kinds[k], config[Kinds[k]], 1, overwrite, out, <<>>)}} : TRUE

\* generate(): the result and the output directory it leaves.  config is
\* [enums, helpers, tables, overwrite]; an absent list is the empty sequence.
generate(config) ==
  CHOOSE r \in
    {[success |-> Len(ix.out.errors) = 0,
      message |-> IF Len(ix.out.errors) = 0
                  THEN "Successfully generated "
                       \o NumToStr(Len(ix.out.generatedFiles)) \o " files"
                  ELSE "Generated with " \o NumToStr(Len(ix.out.errors)) \o " errors",
      errors |-> ErrorList(ix.out.errors),
      generatedFiles |-> ix.out.generatedFiles,
      files |-> [enums |-> ix.files[1], helpers |-> ix.files[2], tables |-> ix.files[3],
                 indexes |-> ix.indexes],
      project |-> ix.out.project] :
       ix \in {CHOOSE q \in
                 {[out |-> i.out, indexes |-> i.indexes, files |-> g.files] :
                    i \in {generateIndexFiles(g.out, g.files[1], g.files[2], g.files[3],
                                              Truthy(config.overwrite))}} : TRUE :
               g \in {generateKinds(config, 1, Truthy(config.overwrite), EmptyOutput,
                                    <<>>)}}} : TRUE

-----------------------------------------------------------------------------
(* src/unnamed/part_003: readSchema() of a new SchemaReader in one step     *)

\* parseEnums, parseHelpers and parseTables: the entities read from the files
\* of a directory, in the order of the listing, and the errors pushed.
ParseFiles(kind, dir, files) ==
  CHOOSE r \in
    {[defs |-> Flatten([i \in 1..Len(parsed) |->
                         IF parsed[i].def = NONE THEN <<>> ELSE <<parsed[i].def>>]),
      errors |-> Flatten([i \in 1..Len(parsed) |-> parsed[i].errors])] :
       parsed \in {Flatten([i \in 1..Len(files) |->
                      CHOOSE x \in {<<ParseFile(kind, content, file)>> :
                                      file \in {files[i]},
                                      content \in {ReadFile(dir, files[i])}} : TRUE])}} : TRUE

ReaderKinds == <<"enum", "helper", "table">>

\* new SchemaReader(projectPath).readSchema(): the result and the errors of
\* the reader.  parseEnums, parseHelpers and parseTables run in this order.
readSchema(project) ==
  IF ~checkProjectExists(project)
  THEN [result |-> MissingResult, errors |-> <<>>]
  ELSE CHOOSE r \in
    {[result |-> ReadResult(project, files, read[1].defs, read[2].defs, read[3].defs,
                            read[1].errors \o read[2].errors \o read[3].errors),
      errors |-> read[1].errors \o read[2].errors \o read[3].errors] :
       files \in {getFileStructure(project)},
       read \in {[k \in 1..Len(Kinds) |->
                    ParseFiles(ReaderKinds[k], project[Kinds[k]],
                               SchemaFiles(project[Kinds[k]]))] \o <<>>}} : TRUE

-----------------------------------------------------------------------------
(* The column codec as a state machine: a definition is encoded, the        *)
(* fragment is decoded, and the decoded definition is encoded again.        *)

Idle == [pc |-> "idle"]

MaxIntDefault == 10
MaxLength == 255

ColumnNames == {"status"}
ColumnTypes ==
  {NONE, S("serial"), S("string"), S("number"), S("boolean"), S("date"), S("enum"),
   S("Text"), S("money")}
Flags == {NONE, B(TRUE), B(FALSE)}
Defaults ==
  {NONE, B(TRUE), B(FALSE), N(0), N(MaxIntDefault), N(0 - 1),
   S("sql.now()"), S("sql.gen_random_uuid()"), S("active"), S("in_progress"),
   S("user@example.com"), S("uuid_generate_v4()"), S("sql.random")}
Lengths == {NONE, N(MaxLength)}
EnumNames == {NONE, S("Status")}
References == {NONE, Ref("users", "id")}

ColumnInputs ==
  {[name |-> n, type |-> t,
    options |-> [notNull |-> nn, primaryKey |-> pk, default |-> df, length |-> ln,
                 enumValues |-> ev, references |-> rf]] :
     n \in ColumnNames, t \in ColumnTypes, nn \in Flags, pk \in Flags, df \in Defaults,
     ln \in Lengths, ev \in EnumNames, rf \in References}

InitColumn ==
  /\ codec \in {[pc |-> "input", d |-> d, enc |-> NONE, dec |-> NONE, reenc |-> NONE] :
                  d \in ColumnInputs}
  /\ enumc = Idle
  /\ diff = Idle
  /\ gate = Idle
  /\ reader = Idle
  /\ build = Idle
  /\ trip = Idle

\* ColumnGenerator(d)
Encode ==
  /\ codec.pc = "input"
  /\ codec' = [codec EXCEPT !.pc = "encoded", !.enc = ColumnGenerator(codec.d)]
  /\ UNCHANGED <<enumc, diff, gate, reader, build, trip>>

\* parseColumnDefinition(fragment), for a definition the generator accepted
Decode ==
  /\ codec.pc = "encoded"
  /\ codec.enc.error = NONE
  /\ codec' = [codec EXCEPT !.pc = "decoded", !.dec = parseColumnDefinition(codec.enc.column)]
  /\ UNCHANGED <<enumc, diff, gate, reader, build, trip>>

\* ColumnGenerator(decoded)
ReEncode ==
  /\ codec.pc = "decoded"
  /\ codec.dec # NONE
  /\ codec' = [codec EXCEPT !.pc = "reencoded", !.reenc = ColumnGenerator(codec.dec)]
  /\ UNCHANGED <<enumc, diff, gate, reader, build, trip>>

NextColumn == Encode \/ Decode \/ ReEncode

SpecColumn == InitColumn /\ [][NextColumn]_vars

\* C1: for every definition d the generator accepts, the decoder finds a column
\* in encode(d) and encode(decode(encode(d))) is exactly the fragment encode(d).
C1_RoundTripIdempotent ==
  /\ codec.pc = "decoded" => codec.dec # NONE
  /\ codec.pc = "reencoded" =>
       codec.reenc.error = NONE /\ codec.reenc.column = codec.enc.column

\* the names imported from a path, the empty sequence when there is none
ImportedFrom(imports, path) ==
  Flatten([i \in 1..Len(imports) |->
             IF imports[i].path = path THEN imports[i].names ELSE <<>>])

\* C12: a definition with options.enumValues is rendered as an enum column
\* whatever its type: no error, the enum's name as constructor with the column
\* name as only argument, imported from the enums index.
C12_EnumValuesWin ==
  (codec.pc # "input" /\ Truthy(codec.d.options.enumValues)) =>
     /\ codec.enc.error = NONE
     /\ StartsWith(codec.enc.column,
                   codec.d.name \o ": " \o codec.d.options.enumValues.s
                   \o "('" \o codec.d.name \o "')")
     /\ Has(ImportedFrom(codec.enc.imports, "../enums/index.js"),
            codec.d.options.enumValues.s)

-----------------------------------------------------------------------------
(* The enum codec as a state machine: an enum definition is generated into  *)
(* its file and the file is read back.                                      *)

MaxEnumValues == 2

EnumValuePool ==
  {"active", "ACTIVE", "Active", "in_progress", "IN_PROGRESS", "In_Progress", "step_1"}

RECURSIVE SeqsUpTo(_, _)
SeqsUpTo(pool, n) ==
  IF n = 0 THEN {<<>>}
  ELSE SeqsUpTo(pool, n - 1)
       \cup {Append(q, x) : q \in {r \in SeqsUpTo(pool, n - 1) : Len(r) = n - 1}, x \in pool}

EnumInputs ==
  {[name |-> n, values |-> vs] : n \in {"", "Status", "UserStatus"},
                                 vs \in SeqsUpTo(EnumValuePool, MaxEnumValues)}

InitEnum ==
  /\ enumc \in {[pc |-> "input", e |-> e, gen |-> NONE, content |-> "", read |-> NONE] :
                  e \in EnumInputs}
  /\ codec = Idle
  /\ diff = Idle
  /\ gate = Idle
  /\ reader = Idle
  /\ build = Idle
  /\ trip = Idle

\* EnumGenerator(e); generateEnums writes the file of an accepted enum
EnumEncode ==
  /\ enumc.pc = "input"
  /\ LET gen == EnumGenerator(enumc.e)
     IN enumc' = [enumc EXCEPT !.pc = "generated", !.gen = gen,
                               !.content = IF gen.error = NONE
                                           THEN EnumFileContent(gen.enumCode) ELSE ""]
  /\ UNCHANGED <<codec, diff, gate, reader, build, trip>>

\* parseEnumContent(content of the generated file)
EnumDecode ==
  /\ enumc.pc = "generated"
  /\ enumc.gen.error = NONE
  /\ enumc' = [enumc EXCEPT !.pc = "read",
                            !.read = parseEnumContent(enumc.content, enumc.e.name \o ".ts")]
  /\ UNCHANGED <<codec, diff, gate, reader, build, trip>>

NextEnum == EnumEncode \/ EnumDecode

SpecEnum == InitEnum /\ [][NextEnum]_vars

\* A value that is already lower snake_case: lower-case letters, digits and
\* single underscores between words.
IsLowerSnake(v) ==
  /\ v # ""
  /\ \A i \in 1..Len(v) : At(v, i) \in LowerChars \cup DigitChars \cup {"_"}
  /\ At(v, 1) # "_" /\ At(v, Len(v)) # "_"
  /\ ~Includes(v, "__")

\* C7: reading a generated enum back yields the same name and, entry by entry
\* in the original order, the canonical (lower-case) snake_case form of each
\* value of the definition; a value that is already lower snake_case comes
\* back unchanged.
C7_EnumRoundTrip ==
  enumc.pc = "read" =>
    /\ enumc.read.def # NONE
    /\ enumc.read.def.name = enumc.e.name
    /\ Len(enumc.read.def.values) = Len(enumc.e.values)
    /\ \A i \in 1..Len(enumc.e.values) :
         /\ enumc.read.def.values[i] = ToLowerCase(enumc.e.values[i])
         /\ IsLowerSnake(enumc.e.values[i]) => enumc.read.def.values[i] = enumc.e.values[i]

-----------------------------------------------------------------------------
(* The diff engine as a state machine: a pair of snapshots, then            *)
(* compareSchemas(current, new).                                            *)

MaxEntities == 2
MaxColumns == 2

Col(name, type, options) == [name |-> name, type |-> S(type), options |-> options]

UniqueNames(entities) ==
  \A i, j \in 1..Len(entities) : entities[i].name = entities[j].name => i = j

\* Two enum entries may carry the same name: the reader takes an enum's name
\* from the export statement, and two files can export the same name.
DiffEnums ==
  {[name |-> "Status", values |-> <<"active">>],
   [name |-> "Status", values |-> <<"active", "inactive">>],
   [name |-> "Status", values |-> <<"inactive", "active">>],
   [name |-> "Role", values |-> <<"admin", "admin">>],
   [name |-> "Plan", values |-> <<"free">>]}

DiffHelperColumns ==
  {Col("createdAt", "date", [NoOptions EXCEPT !.default = S("sql.now()")]),
   Col("createdAt", "date", [NoOptions EXCEPT !.notNull = B(TRUE)]),
   Col("updatedAt", "date", NoOptions),
   Col("deletedAt", "date", NoOptions)}

DiffHelpers ==
  {[name |-> n, columns |-> cs] :
     n \in {"timestamps"},
     cs \in {c \in SeqsUpTo(DiffHelperColumns, MaxColumns) : UniqueNames(c)}}
  \cup {[name |-> "softDelete", columns |-> <<Col("deletedAt", "date", NoOptions)>>]}

DiffTableColumns ==
  {Col("id", "serial", [NoOptions EXCEPT !.primaryKey = B(TRUE)]),
   Col("email", "string", NoOptions),
   Col("email", "string", [NoOptions EXCEPT !.notNull = B(TRUE)]),
   Col("email", "string", [NoOptions EXCEPT !.notNull = B(FALSE)]),
   Col("email", "string", [NoOptions EXCEPT !.default = S("none")]),
   Col("email", "string", [NoOptions EXCEPT !.primaryKey = B(FALSE)]),
   Col("email", "number", [NoOptions EXCEPT !.default = N(0)]),
   Col("email", "string", [NoOptions EXCEPT !.references = Ref("accounts", "email")]),
   Col("age", "number", [NoOptions EXCEPT !.notNull = B(TRUE)])}

DiffHelperReferences ==
  {<<>>, <<"timestamps">>, <<"timestamps", "softDelete">>, <<"softDelete", "timestamps">>,
   <<"timestamps", "audit">>, <<"timestamps", "timestamps">>}

DiffCompositeKeys ==
  {<<>>, <<"orgId">>, <<"orgId", "userId">>, <<"userId", "orgId">>, <<"orgId", "teamId">>,
   <<"orgId", "orgId">>}

Table(name, columns, helperReferences, compositePrimaryKey) ==
  [name |-> name, columns |-> columns, helperReferences |-> helperReferences,
   compositePrimaryKey |-> compositePrimaryKey]

\* The "users" table in every column variant, every helper-reference variant
\* and every composite-key variant, and one "posts" table.
DiffUsers ==
  {Table("users", cs, <<>>, <<>>) :
     cs \in {c \in SeqsUpTo(DiffTableColumns, MaxColumns) : UniqueNames(c)}}
  \cup {Table("users", <<>>, hr, <<>>) : hr \in DiffHelperReferences}
  \cup {Table("users", <<>>, <<>>, pk) : pk \in DiffCompositeKeys}

DiffPosts == Table("posts", <<Col("title", "string", NoOptions)>>, <<"timestamps">>, <<>>)

\* Table names are unique within a snapshot: the reader names a table after
\* its file.
DiffTables ==
  {<<>>, <<DiffPosts>>} \cup {<<u>> : u \in DiffUsers}
  \cup (IF MaxEntities >= 2
        THEN {<<u, DiffPosts>> : u \in {t \in DiffUsers : Len(t.columns) = 1}}
             \cup {<<DiffPosts, u>> : u \in {t \in DiffUsers : Len(t.columns) = 0}}
        ELSE {})

Schema(enums, helpers, tables) == [enums |-> enums, helpers |-> helpers, tables |-> tables]

MixedEnums == {<<>>,
               <<[name |-> "Status", values |-> <<"active">>],
                 [name |-> "Role", values |-> <<"admin", "admin">>]>>,
               <<[name |-> "Plan", values |-> <<"free">>],
                 [name |-> "Status", values |-> <<"active", "inactive">>]>>}
MixedHelpers == {<<>>, <<[name |-> "softDelete",
                          columns |-> <<Col("deletedAt", "date", NoOptions)>>]>>,
                 <<[name |-> "timestamps",
                    columns |-> <<Col("createdAt", "date", [NoOptions EXCEPT !.notNull = B(TRUE)]),
                                  Col("updatedAt", "date", NoOptions)>>]>>,
                 <<[name |-> "timestamps",
                    columns |-> <<Col("updatedAt", "date", NoOptions)>>]>>}
MixedTables == {<<>>, <<DiffPosts>>,
                <<Table("users", <<Col("email", "string", NoOptions)>>, <<>>, <<>>)>>}

Schemas ==
  {Schema(e, <<>>, <<>>) : e \in SeqsUpTo(DiffEnums, MaxEntities)}
  \cup {Schema(<<>>, h, <<>>) :
          h \in {x \in SeqsUpTo(DiffHelpers, MaxEntities) : UniqueNames(x)}}
  \cup {Schema(<<>>, <<>>, t) : t \in DiffTables}
  \cup {Schema(e, h, t) : e \in MixedEnums, h \in MixedHelpers, t \in MixedTables}

InitDiff ==
  /\ diff \in {[pc |-> "input", current |-> c, new |-> n, result |-> NONE] :
                 c \in Schemas, n \in Schemas}
  /\ codec = Idle
  /\ enumc = Idle
  /\ gate = Idle
  /\ reader = Idle
  /\ build = Idle
  /\ trip = Idle

\* compareSchemas(currentSchema, newSchema)
Compare ==
  /\ diff.pc = "input"
  /\ diff' = [diff EXCEPT !.pc = "compared",
                          !.result = compareSchemas(diff.current, diff.new)]
  /\ UNCHANGED <<codec, enumc, gate, reader, build, trip>>

NextDiff == Compare

SpecDiff == InitDiff /\ [][NextDiff]_vars

Range(items) == {items[i] : i \in 1..Len(items)}

Compared == diff.pc = "compared"

\* C2: comparing a snapshot with itself yields no change, a total of zero
\* and the single "no changes" recommendation.
C2_SelfComparisonEmpty ==
  (Compared /\ diff.current = diff.new) =>
    /\ diff.result.changes = <<>>
    /\ diff.result.summary.totalChanges = 0
    /\ diff.result.recommendations = <<"No changes detected. Schemas are identical.">>

\* The category and impact that each change type carries, column_not_null_changed
\* apart.
C5_Expected(type) ==
  CASE type \in {"enum_added", "enum_value_added", "helper_added", "helper_column_added",
                 "table_added", "table_helper_reference_added"} -> <<"addition", "safe">>
    [] type \in {"enum_removed", "enum_value_removed", "table_removed",
                 "table_column_removed"} -> <<"removal", "breaking">>
    [] type \in {"helper_removed", "helper_column_removed",
                 "table_helper_reference_removed"} -> <<"removal", "warning">>
    [] type \in {"table_composite_primary_key_changed", "column_type_changed",
                 "column_primary_key_changed"} -> <<"modification", "breaking">>
    [] type = "column_default_changed" -> <<"modification", "safe">>
    [] OTHER -> <<"none", "none">>

\* The column of the new snapshot that a column change targets.
TargetColumn(target) ==
  LET owners == IF target.type = "helper" THEN diff.new.helpers ELSE diff.new.tables
  IN FindByName(FindByName(owners, target.name).columns, target.column.s)

Block(change) ==
  CASE change.target.type = "enum" -> 1
    [] change.target.type = "helper" -> 2
    [] change.target.type = "table" -> 3

Phase(change) ==
  IF change.type \in {"enum_added", "helper_added", "table_added"} THEN 1
  ELSE IF change.type \in {"enum_removed", "helper_removed", "table_removed"} THEN 2
  ELSE 3

BlockEntities(schema, b) ==
  CASE b = 1 -> schema.enums [] b = 2 -> schema.helpers [] b = 3 -> schema.tables

Names(items) == [i \in 1..Len(items) |-> items[i].name]

TargetNames(changes, b, p) ==
  LET picked == SelectSeq(changes, LAMBDA c : Block(c) = b /\ Phase(c) = p)
  IN [i \in 1..Len(picked) |-> picked[i].target.name]

\* The names of the entities of `these` that `those` has no entity for.
NamesMissingFrom(these, those) ==
  Names(SelectSeq(these, LAMBDA e : e.name \notin Range(Names(those))))

\* C6: enum changes precede helper changes, which precede table changes;
\* within a block the added entities come first, in the order of the new
\* snapshot, then the removed ones, in the order of the old snapshot, then the
\* changes of the name-matched pairs, pair by pair in the order of the new
\* snapshot.
C6_ChangeOrder ==
  Compared =>
    LET chs == diff.result.changes IN
    /\ \A i, j \in 1..Len(chs) : i < j =>
         /\ Block(chs[i]) <= Block(chs[j])
         /\ Block(chs[i]) = Block(chs[j]) => Phase(chs[i]) <= Phase(chs[j])
    /\ \A b \in 1..3 :
         LET old == BlockEntities(diff.current, b)
             new == BlockEntities(diff.new, b)
             pairs == TargetNames(chs, b, 3)
         IN /\ TargetNames(chs, b, 1) = NamesMissingFrom(new, old)
            /\ TargetNames(chs, b, 2) = NamesMissingFrom(old, new)
            /\ \A i, j \in 1..Len(pairs) : i < j =>
                 First({n \in 1..Len(new) : new[n].name = pairs[i]})
                   <= First({n \in 1..Len(new) : new[n].name = pairs[j]})

C6_Witness ==
  /\ Compared
  /\ \E i, j, k, l \in 1..Len(diff.result.changes) :
       /\ i < j /\ j < k /\ k < l
       /\ diff.result.changes[i].type = "enum_added"
       /\ diff.result.changes[j].type = "enum_removed"
       /\ diff.result.changes[k].type = "enum_value_added"
       /\ Block(diff.result.changes[l]) = 3

\* The table_column_added changes for column `name` of table `table`.
ColumnAdditions(table, name) ==
  {i \in 1..Len(diff.result.changes) :
     /\ diff.result.changes[i].type = "table_column_added"
     /\ diff.result.changes[i].target.name = table
     /\ diff.result.changes[i].target.column = S(name)}

\* The <<table name, column>> pairs of the new snapshot whose table exists in
\* the old snapshot without a column of that name.
AddedColumns ==
  LET old == diff.current.tables
      new == diff.new.tables
      all == UNION {{<<new[t].name, new[t].columns[c]>> : c \in 1..Len(new[t].columns)} :
                      t \in 1..Len(new)}
  IN {pair \in all :
        /\ pair[1] \in Range(Names(old))
        /\ pair[2].name \notin Range(Names(FindByName(old, pair[1]).columns))}

\* C9: a column added to a name-matched table gets exactly one
\* table_column_added change, rated warning exactly when the column is NOT
\* NULL, and then described with the words NOT NULL, and rated safe otherwise.
C9_AddedColumnRating ==
  Compared =>
    \A pair \in AddedColumns :
      LET hits == ColumnAdditions(pair[1], pair[2].name) IN
      /\ Cardinality(hits) = 1
      /\ \A i \in hits :
           LET ch == diff.result.changes[i] IN
           IF Truthy(pair[2].options.notNull)
           THEN ch.impact = "warning" /\ Includes(ch.description, "NOT NULL")
           ELSE ch.impact = "safe"

C9_Witness ==
  /\ Compared
  /\ \E pair \in AddedColumns :
       /\ Truthy(pair[2].options.notNull)
       /\ \E i \in ColumnAdditions(pair[1], pair[2].name) :
            diff.result.changes[i].impact = "warning"

\* The name-matched table pairs <<old, new>> of the two snapshots.
MatchedTables ==
  {<<FindByName(diff.current.tables, diff.new.tables[t].name), diff.new.tables[t]>> :
     t \in {n \in 1..Len(diff.new.tables) :
              diff.new.tables[n].name \in Range(Names(diff.current.tables))}}

TableChanges(table, type) ==
  {i \in 1..Len(diff.result.changes) :
     /\ diff.result.changes[i].type = type
     /\ diff.result.changes[i].target.name = table}

\* The changes of `type` on `table` match the members one to one.
OnePerMember(table, type, members) ==
  /\ Cardinality(TableChanges(table, type)) = Cardinality(members)
  /\ \A m \in members :
       \E i \in TableChanges(table, type) :
         diff.result.changes[i].details.helperReference = m

\* C10: for a name-matched table the helper references and the composite
\* primary key are compared as sets: one added change per member only the new
\* list has, one removed change per member only the old list has, and one
\* composite-key change exactly when the two key lists differ as sets; so a
\* reordered list produces nothing.
C10_SetSemantics ==
  Compared =>
    \A pair \in MatchedTables :
      LET old == pair[1]
          new == pair[2]
      IN /\ OnePerMember(new.name, "table_helper_reference_added",
                         Range(new.helperReferences) \ Range(old.helperReferences))
         /\ OnePerMember(new.name, "table_helper_reference_removed",
                         Range(old.helperReferences) \ Range(new.helperReferences))
         /\ Cardinality(TableChanges(new.name, "table_composite_primary_key_changed"))
              = (IF Range(old.compositePrimaryKey) = Range(new.compositePrimaryKey)
                 THEN 0 ELSE 1)

\* a reordered key list and a reordered reference list, and no change
C10_Witness ==
  /\ Compared
  /\ \E pair \in MatchedTables :
       /\ pair[1].compositePrimaryKey # pair[2].compositePrimaryKey
       /\ Len(pair[1].compositePrimaryKey) = Len(pair[2].compositePrimaryKey)
       /\ Range(pair[1].compositePrimaryKey) = Range(pair[2].compositePrimaryKey)
       /\ diff.result.changes = <<>>

\* an equally long key list with another member, and the key change
C10_WitnessDifferent ==
  /\ Compared
  /\ \E pair \in MatchedTables :
       /\ Len(pair[1].compositePrimaryKey) = Len(pair[2].compositePrimaryKey)
       /\ Range(pair[1].compositePrimaryKey) # Range(pair[2].compositePrimaryKey)
       /\ TableChanges(pair[2].name, "table_composite_primary_key_changed") # {}

-----------------------------------------------------------------------------
(* The safety gate as a state machine: a comparison and a policy, then      *)
(* applySafeChanges(projectPath, comparison, options).                      *)

MaxChanges == 3

\* One change of each impact, and one whose impact is none of the three.
GateChanges ==
  {Change("table_added", "addition", "safe", "Added table 'users' with 1 columns",
          Target("table", "users", NONE), NONE),
   Change("helper_removed", "removal", "warning", "Removed helper 'timestamps'",
          Target("helper", "timestamps", NONE), NONE),
   Change("table_removed", "removal", "breaking", "Removed table 'posts'",
          Target("table", "posts", NONE), NONE),
   Change("table_added", "addition", "critical", "Added table 'audit' with 1 columns",
          Target("table", "audit", NONE), NONE)}

\* An options object without a field is the record with that field undefined.
GateOptions ==
  [allowBreaking : Flags, allowWarning : Flags, dryRun : Flags]

InitGate ==
  /\ gate \in {[pc |-> "input", comparison |-> [changes |-> chs], options |-> o,
                result |-> NONE, calls |-> <<>>] :
                 chs \in SeqsUpTo(GateChanges, MaxChanges), o \in GateOptions}
  /\ codec = Idle
  /\ enumc = Idle
  /\ diff = Idle
  /\ reader = Idle
  /\ build = Idle
  /\ trip = Idle

ApplySafeChanges ==
  /\ gate.pc = "input"
  /\ LET out == applySafeChanges("./src/db", gate.comparison, gate.options, gate.calls)
     IN gate' = [gate EXCEPT !.pc = "done", !.result = out.result, !.calls = out.calls]
  /\ UNCHANGED <<codec, enumc, diff, reader, build, trip>>

NextGate == ApplySafeChanges

SpecGate == InitGate /\ [][NextGate]_vars

Done == gate.pc = "done"

Defaulted(option) == gate.options[option] = NONE

Given(option, value) == gate.options[option] = B(value)

\* Whether the policy of the call lets a change of this impact through.
Admits(impact) ==
  \/ impact = "safe"
  \/ impact = "warning" /\ (Defaulted("allowWarning") \/ Given("allowWarning", TRUE))
  \/ impact = "breaking" /\ Given("allowBreaking", TRUE)

ImpactsOf(changes) == [i \in 1..Len(changes) |-> changes[i].impact]

C4_DefaultsApplyOnlySafe ==
  (Done /\ Defaulted("allowWarning") /\ Defaulted("allowBreaking")) =>
    /\ \A i \in 1..Len(gate.result.applied) : gate.result.applied[i].impact = "safe"
    /\ gate.result.rejected =
         SelectSeq(gate.comparison.changes, LAMBDA c : c.impact # "safe")

-----------------------------------------------------------------------------
(* The reader as a state machine: one SchemaReader over one project          *)
(* directory; readSchema is called, reads the files one by one, returns,     *)
(* and may be called again.  `outcomes` records, for each file of the        *)
(* running call, whether reading it pushed an error and which entity it      *)
(* added.                                                                    *)

MaxCalls == 2

File(file, text) == [file |-> file, content |-> S(text)]
Unreadable(file) == [file |-> file, content |-> NONE]

StatusFile ==
  File("Status.ts",
       EnumFileContent(EnumGenerator([name |-> "Status",
                                      values |-> <<"active", "inactive">>]).enumCode))
BadEnumFile == File("BadEnum.ts", "export const BadEnum = invalidSyntax;")
NoValuesFile == File("Empty.ts", "export const Empty = pgEnum('empty', [,] as const);")

TimestampsFile ==
  File("timestamps.ts",
       "import { timestamp } from 'drizzle-orm/pg-core';\n\n"
       \o "export const timestamps = {\n"
       \o "    createdAt: timestamp('created_at').notNull(),\n"
       \o "    updatedAt: timestamp('updated_at')\n"
       \o "};\n")
BadHelperFile == File("broken.ts", "export const broken = invalidSyntax;")
NoColumnsFile == File("marker.ts", "export const marker = {\n};\n")

UsersFile ==
  File("users.ts",
       "import { pgTable, serial, varchar } from 'drizzle-orm/pg-core';\n"
       \o "import { timestamps } from '../helpers/index.js';\n\n"
       \o "export const users = pgTable('users', {\n"
       \o "    id: serial('id').primaryKey(),\n"
       \o "    email: varchar('email').notNull(),\n"
       \o "    ...timestamps\n"
       \o "});\n")
MembershipsFile ==
  File("memberships.ts",
       "import { integer, pgTable, primaryKey } from 'drizzle-orm/pg-core';\n\n"
       \o "export const memberships = pgTable('org_members', {\n"
       \o "    orgId: integer('org_id').notNull(),\n"
       \o "    userId: integer('user_id').notNull()\n"
       \o "}, (memberships) => ({\n"
       \o "    compositePK: primaryKey({ columns: [memberships.orgId, memberships.userId] })\n"
       \o "}));\n")
BadTableFile == File("broken.ts", "export const broken = pgTable(;")

IndexFile == File("index.ts", "")

EnumDirs ==
  {NONE, Dir(<<IndexFile>>), Dir(<<StatusFile, IndexFile>>), Dir(<<BadEnumFile, StatusFile>>),
   Dir(<<StatusFile, NoValuesFile>>), Dir(<<Unreadable("Role.ts"), StatusFile>>)}
HelperDirs ==
  {NONE, Dir(<<TimestampsFile>>), Dir(<<BadHelperFile, TimestampsFile>>),
   Dir(<<NoColumnsFile, TimestampsFile>>)}
TableDirs ==
  {NONE, Dir(<<UsersFile, File("README.md", "tables")>>), Dir(<<BadTableFile, UsersFile>>),
   Dir(<<MembershipsFile, Unreadable("posts.ts")>>)}

Projects ==
  {NONE} \cup [index : BOOLEAN, enums : EnumDirs, helpers : HelperDirs, tables : TableDirs]

NotRunning ==
  [files |-> NONE, stage |-> "none", next |-> 0,
   enums |-> <<>>, helpers |-> <<>>, tables |-> <<>>, outcomes |-> <<>>]

InitReader ==
  /\ reader \in {[pc |-> "new", project |-> p, errors |-> <<>>, calls |-> 0,
                  run |-> NotRunning, results |-> <<>>] : p \in Projects}
  /\ codec = Idle
  /\ enumc = Idle
  /\ diff = Idle
  /\ gate = Idle
  /\ build = Idle
  /\ trip = Idle

Callable == reader.pc \in {"new", "returned"} /\ reader.calls < MaxCalls

\* readSchema() on a project that does not exist: lines 23-36
ReadSchemaMissing ==
  /\ Callable
  /\ ~checkProjectExists(reader.project)
  /\ reader' = [reader EXCEPT !.pc = "returned", !.calls = @ + 1, !.run = NotRunning,
                              !.results = Append(@, MissingResult)]
  /\ UNCHANGED <<codec, enumc, diff, gate, build, trip>>

\* readSchema() up to the first file: checkProjectExists, getFileStructure
ReadSchemaStart ==
  /\ Callable
  /\ checkProjectExists(reader.project)
  /\ LET files == getFileStructure(reader.project)
         at == Seek(files, "enums", 1)
     IN reader' = [reader EXCEPT !.pc = "reading", !.calls = @ + 1,
                                 !.run = [NotRunning EXCEPT !.files = files,
                                                            !.stage = at[1], !.next = at[2]]]
  /\ UNCHANGED <<codec, enumc, diff, gate, build, trip>>

CurrentFile == reader.run.files[reader.run.stage][reader.run.next]

\* The state after the file at the current position has been parsed into the
\* list `list` of the running call.
AfterFile(kind, parsed, list) ==
  LET run == reader.run
      file == CurrentFile
      at == Seek(run.files, run.stage, run.next + 1)
  IN [reader EXCEPT
        !.errors = @ \o parsed.errors,
        !.run = [run EXCEPT
                   ![list] = IF parsed.def # NONE THEN Append(@, parsed.def) ELSE @,
                   !.outcomes = Append(@, [kind |-> kind, file |-> file,
                                           failed |-> parsed.errors # <<>>,
                                           entity |-> parsed.def]),
                   !.stage = at[1], !.next = at[2]]]

\* one turn of the loop of parseEnums
ParseEnumFile ==
  /\ reader.pc = "reading" /\ reader.run.stage = "enums"
  /\ \E content \in {ReadFile(reader.project.enums, CurrentFile)} :
       \E parsed \in {ParseFile("enum", content, CurrentFile)} :
         reader' = AfterFile("enum", parsed, "enums")
  /\ UNCHANGED <<codec, enumc, diff, gate, build, trip>>

\* one turn of the loop of parseHelpers
ParseHelperFile ==
  /\ reader.pc = "reading" /\ reader.run.stage = "helpers"
  /\ \E content \in {ReadFile(reader.project.helpers, CurrentFile)} :
       \E parsed \in {ParseFile("helper", content, CurrentFile)} :
         reader' = AfterFile("helper", parsed, "helpers")
  /\ UNCHANGED <<codec, enumc, diff, gate, build, trip>>

\* one turn of the loop of parseTables
ParseTableFile ==
  /\ reader.pc = "reading" /\ reader.run.stage = "tables"
  /\ \E content \in {ReadFile(reader.project.tables, CurrentFile)} :
       \E parsed \in {ParseFile("table", content, CurrentFile)} :
         reader' = AfterFile("table", parsed, "tables")
  /\ UNCHANGED <<codec, enumc, diff, gate, build, trip>>

\* readSchema() after the last file: getMetadata and the result, lines 47-64
ReadSchemaReturn ==
  /\ reader.pc = "reading" /\ reader.run.stage = "done"
  /\ reader' = [reader EXCEPT
                  !.pc = "returned",
                  !.results = Append(@, ReadResult(reader.project, reader.run.files,
                                                   reader.run.enums, reader.run.helpers,
                                                   reader.run.tables, reader.errors))]
  /\ UNCHANGED <<codec, enumc, diff, gate, build, trip>>

NextReader ==
  \/ ReadSchemaMissing
  \/ ReadSchemaStart
  \/ ParseEnumFile
  \/ ParseHelperFile
  \/ ParseTableFile
  \/ ReadSchemaReturn

SpecReader == InitReader /\ [][NextReader]_vars

LastResult == reader.results[Len(reader.results)]

\* readSchema has returned the result of a call that read the project's files.
ReturnedSchema == reader.pc = "returned" /\ LastResult.schema # NONE

\* The entities that the files of one kind added, in the order of the files.
EntitiesOf(kind) ==
  LET added == SelectSeq(reader.run.outcomes, LAMBDA o : o.kind = kind /\ o.entity # NONE)
  IN [i \in 1..Len(added) |-> added[i].entity]

\* C8: a file whose decoding pushes an error contributes no entity to the
\* returned schema; every discovered file is decoded all the same, and the
\* schema holds what the files without an error yielded; success is true
\* exactly when the reader's error list is empty.
C8_ErrorPolicy ==
  ReturnedSchema =>
    LET out == reader.run.outcomes
        files == reader.run.files
    IN /\ \A i \in 1..Len(out) : out[i].failed => out[i].entity = NONE
       /\ [i \in 1..Len(out) |-> out[i].file] = files.enums \o files.helpers \o files.tables
       /\ \A i \in 1..Len(out) : ~out[i].failed => out[i].entity # NONE
       /\ LastResult.schema.enums = EntitiesOf("enum")
       /\ LastResult.schema.helpers = EntitiesOf("helper")
       /\ LastResult.schema.tables = EntitiesOf("table")
       /\ LastResult.success <=> reader.errors = <<>>

\* C11: applyChangesToFiles is called exactly once, with the project path and
\* the applied changes in the order of the comparison, when dryRun is false
\* (or absent) and a change is applied; in a dry run, or when nothing is
\* applied, it is not called at all.
C11_MaterialisedOnce ==
  Done =>
    IF ~Given("dryRun", TRUE) /\ gate.result.applied # <<>>
    THEN gate.calls = <<[projectPath |-> "./src/db", changes |-> gate.result.applied]>>
         /\ gate.result.applied = SelectSeq(gate.comparison.changes,
                                            LAMBDA c : Has(gate.result.applied, c))
    ELSE gate.calls = <<>>

C11_Witness ==
  /\ Done
  /\ Given("dryRun", FALSE)
  /\ ImpactsOf(gate.comparison.changes) = <<"warning", "breaking", "safe">>
  /\ Len(gate.calls) = 1
  /\ ImpactsOf(gate.calls[1].changes) = <<"warning", "safe">>

\* a dry run that applies a change and calls nothing
C11_WitnessDryRun ==
  /\ Done
  /\ Given("dryRun", TRUE)
  /\ gate.result.applied # <<>>
  /\ gate.calls = <<>>

-----------------------------------------------------------------------------
(* The entity generators as a state machine: a helper definition, a table   *)
(* definition or a list of either is generated.                             *)

MaxHelperColumns == 3
MaxTableColumns == 2
MaxBatch == 3

BuildColumn(name, type) == [name |-> name, type |-> type, options |-> NoOptions]

\* Four columns the column generator accepts and two it refuses.
GoodColumns ==
  {[BuildColumn("id", S("serial")) EXCEPT !.options.primaryKey = B(TRUE)],
   [BuildColumn("email", S("string")) EXCEPT !.options.length = N(MaxLength),
                                             !.options.notNull = B(TRUE)],
   [BuildColumn("ownerId", S("number")) EXCEPT !.options.references = Ref("users", "id")],
   [BuildColumn("createdAt", S("date")) EXCEPT !.options.default = S("sql.now()")]}
BadColumns == {BuildColumn("price", S("money")), BuildColumn("status", NONE)}
BuildColumns == GoodColumns \cup BadColumns

HelperInputs ==
  {[name |-> n, columns |-> cs] :
     n \in {"timestamps", " "}, cs \in SeqsUpTo(BuildColumns, MaxHelperColumns)}

TableInputs ==
  {[name |-> n, dbName |-> db, columns |-> cs, helperReferences |-> hs,
    compositePrimaryKey |-> pk] :
     n \in {"users", "UserRoles", ""}, db \in {NONE, S("app_users")},
     cs \in SeqsUpTo(BuildColumns, MaxTableColumns),
     hs \in {<<>>, <<"timestamps">>, <<"timestamps", "audit">>},
     pk \in {<<>>, <<"id">>, <<"id", "ownerId">>, <<"ownerId", "id", "email">>}}

\* Batches: sound and failing definitions in every order.
BatchHelpers ==
  {[name |-> "timestamps",
    columns |-> <<[BuildColumn("createdAt", S("date")) EXCEPT
                     !.options.default = S("sql.now()")]>>],
   [name |-> "owned",
    columns |-> <<[BuildColumn("ownerId", S("number")) EXCEPT
                     !.options.references = Ref("users", "id")]>>],
   [name |-> "priced", columns |-> <<BuildColumn("price", S("money"))>>],
   [name |-> "empty", columns |-> <<>>]}

BatchTables ==
  {[name |-> "users", dbName |-> NONE,
    columns |-> <<[BuildColumn("id", S("serial")) EXCEPT !.options.primaryKey = B(TRUE)]>>,
    helperReferences |-> <<"timestamps">>, compositePrimaryKey |-> <<>>],
   [name |-> "posts", dbName |-> S("blog_posts"),
    columns |-> <<[BuildColumn("ownerId", S("number")) EXCEPT
                     !.options.references = Ref("users", "id")]>>,
    helperReferences |-> <<>>, compositePrimaryKey |-> <<>>],
   [name |-> "prices", dbName |-> NONE,
    columns |-> <<BuildColumn("price", S("money"))>>,
    helperReferences |-> <<>>, compositePrimaryKey |-> <<>>],
   [name |-> "bare", dbName |-> NONE, columns |-> <<>>,
    helperReferences |-> <<>>, compositePrimaryKey |-> <<>>]}

BuildInput(kind, input) == [pc |-> "input", kind |-> kind, input |-> input, result |-> NONE]

InitBuild ==
  /\ build \in {BuildInput("helper", d) : d \in HelperInputs}
            \cup {BuildInput("table", d) : d \in TableInputs}
            \cup {BuildInput("helpers", ds) : ds \in SeqsUpTo(BatchHelpers, MaxBatch)}
            \cup {BuildInput("tables", ds) : ds \in SeqsUpTo(BatchTables, MaxBatch)}
  /\ codec = Idle
  /\ enumc = Idle
  /\ diff = Idle
  /\ gate = Idle
  /\ reader = Idle
  /\ trip = Idle

Built(result) == [build EXCEPT !.pc = "done", !.result = result]

\* HelperGenerator(definition)
GenerateHelper ==
  /\ build.pc = "input"
  /\ build.kind = "helper"
  /\ \E result \in {HelperGenerator(build.input)} : build' = Built(result)
  /\ UNCHANGED <<codec, enumc, diff, gate, reader, trip>>

\* TableGenerator(definition)
GenerateTable ==
  /\ build.pc = "input"
  /\ build.kind = "table"
  /\ \E result \in {TableGenerator(build.input)} : build' = Built(result)
  /\ UNCHANGED <<codec, enumc, diff, gate, reader, trip>>

\* generateMultipleHelpers(definitions)
GenerateMultipleHelpers ==
  /\ build.pc = "input"
  /\ build.kind = "helpers"
  /\ \E result \in {generateMultipleHelpers(build.input)} : build' = Built(result)
  /\ UNCHANGED <<codec, enumc, diff, gate, reader, trip>>

\* generateMultipleTables(definitions)
GenerateMultipleTables ==
  /\ build.pc = "input"
  /\ build.kind = "tables"
  /\ \E result \in {generateMultipleTables(build.input)} : build' = Built(result)
  /\ UNCHANGED <<codec, enumc, diff, gate, reader, trip>>

NextBuild ==
  \/ GenerateHelper
  \/ GenerateTable
  \/ GenerateMultipleHelpers
  \/ GenerateMultipleTables

SpecBuild == InitBuild /\ [][NextBuild]_vars

BuiltAs(kind) == build.pc = "done" /\ build.kind = kind

\* the code of a single-entity result
CodeOf(kind, result) == IF kind = "helper" THEN result.helperCode ELSE result.tableCode

\* the indexes of the columns that fail to encode
Refused(columns) == {i \in 1..Len(columns) : ColumnGenerator(columns[i]).error # NONE}

\* the definition passes the checks made before the columns are encoded
Admitted(kind, d) ==
  /\ Trim(d.name) # ""
  /\ IF kind = "helper" THEN Len(d.columns) > 0
     ELSE Len(d.columns) > 0 \/ Len(d.helperReferences) > 0

\* C13: a helper or a table with a column that fails to encode returns the
\* error "Error in column '<name>': <reason>" of its first failing column, with
\* empty code, imports and table references, whatever precedes that column.
C13_FailFast ==
  \A kind \in {"helper", "table"} :
    (BuiltAs(kind) /\ Admitted(kind, build.input) /\ Refused(build.input.columns) # {}) =>
      LET i == First(Refused(build.input.columns))
      IN /\ build.result.error =
              S("Error in column '" \o build.input.columns[i].name \o "': "
                \o ColumnGenerator(build.input.columns[i]).error.s)
         /\ CodeOf(kind, build.result) = ""
         /\ build.result.imports = <<>>
         /\ build.result.tables = <<>>

\* a helper whose first column encodes and whose next two columns both fail
C13_Witness ==
  /\ BuiltAs("helper")
  /\ Admitted("helper", build.input)
  /\ Refused(build.input.columns) = {2, 3}
  /\ build.input.columns[2].name # build.input.columns[3].name
  /\ build.result.error = S("Error in column 'price': Unsupported type 'money' for column 'price'.")

C13_WitnessTable ==
  /\ BuiltAs("table")
  /\ Admitted("table", build.input)
  /\ Refused(build.input.columns) = {2}
  /\ build.result.error # NONE
  /\ build.result.tableCode = ""

\* the single-entity result of the n-th definition of a batch
Single(kind, definition) ==
  IF kind = "helpers" THEN HelperGenerator(definition) ELSE TableGenerator(definition)

BatchCodes(kind, result) == IF kind = "helpers" THEN result.helperCodes ELSE result.tableCodes
BatchErrors(result) == IF result.errors = NONE THEN <<>> ELSE result.errors.items
Noun(kind) == IF kind = "helpers" THEN "helper" ELSE "table"

\* how many of the first n definitions fail, and how many succeed
FailuresUpTo(kind, definitions, n) ==
  Cardinality({i \in 1..n : Single(kind, definitions[i]).error # NONE})
SuccessesUpTo(kind, definitions, n) == n - FailuresUpTo(kind, definitions, n)

\* C14: a batch goes through its whole input list: the k-th succeeding entity
\* supplies the k-th code, the k-th failing entity supplies the k-th error
\* message and no code, nothing else is in either list, and errors is
\* undefined exactly when no entity fails.
C14_CollectBatch ==
  \A kind \in {"helpers", "tables"} :
    BuiltAs(kind) =>
      LET ds == build.input
          codes == BatchCodes(kind, build.result)
          errors == BatchErrors(build.result)
      IN /\ Len(codes) = SuccessesUpTo(kind, ds, Len(ds))
         /\ Len(errors) = FailuresUpTo(kind, ds, Len(ds))
         /\ (build.result.errors = NONE) <=> (FailuresUpTo(kind, ds, Len(ds)) = 0)
         /\ \A i \in 1..Len(ds) :
              LET single == Single(kind, ds[i])
              IN IF single.error = NONE
                 THEN codes[SuccessesUpTo(kind, ds, i)] = CodeOf(Noun(kind), single)
                 ELSE errors[FailuresUpTo(kind, ds, i)] =
                        "Error in " \o Noun(kind) \o " '" \o ds[i].name \o "': "
                        \o single.error.s

\* a failing helper between two succeeding ones
C14_Witness ==
  /\ BuiltAs("helpers")
  /\ Len(build.input) = 3
  /\ HelperGenerator(build.input[1]).error = NONE
  /\ HelperGenerator(build.input[2]).error # NONE
  /\ HelperGenerator(build.input[3]).error = NONE
  /\ build.input[1] # build.input[3]
  /\ build.result.helperCodes =
       <<HelperGenerator(build.input[1]).helperCode, HelperGenerator(build.input[3]).helperCode>>
  /\ Len(build.result.errors.items) = 1

C14_WitnessTables ==
  /\ BuiltAs("tables")
  /\ Len(build.input) = 3
  /\ TableGenerator(build.input[1]).error # NONE
  /\ TableGenerator(build.input[2]).error # NONE
  /\ TableGenerator(build.input[3]).error = NONE
  /\ Len(build.result.tableCodes) = 1
  /\ Len(build.result.errors.items) = 2

\* C15: a generated table carries the primaryKey({ columns: [...] }) block and
\* imports primaryKey exactly when compositePrimaryKey has two or more entries;
\* a key of one entry causes no error.
C15_CompositeKeyBlock ==
  BuiltAs("table") =>
    /\ build.result.error = NONE =>
         /\ Includes(build.result.tableCode, "primaryKey({ columns: [")
              <=> Len(build.input.compositePrimaryKey) >= 2
         /\ Has(ImportedFrom(build.result.imports, "drizzle-orm/pg-core"), "primaryKey")
              <=> Len(build.input.compositePrimaryKey) >= 2
         /\ Len(build.input.compositePrimaryKey) >= 2 =>
              EndsWith(build.result.tableCode,
                       "primaryKey({ columns: ["
                       \o Join([i \in 1..Len(build.input.compositePrimaryKey) |->
                                  ToLowerCase(build.input.name) \o "."
                                  \o build.input.compositePrimaryKey[i]], ", ")
                       \o "] })\n}));")
    /\ Len(build.input.compositePrimaryKey) = 1 =>
         build.result.error =
           TableGenerator([build.input EXCEPT !.compositePrimaryKey = <<>>]).error

\* a table with a key of one entry, generated without block and import
C15_Witness ==
  /\ BuiltAs("table")
  /\ Len(build.input.compositePrimaryKey) = 1
  /\ build.input.columns # <<>>
  /\ build.result.error = NONE
  /\ ~Includes(build.result.tableCode, "primaryKey")
  /\ ~Has(ImportedFrom(build.result.imports, "drizzle-orm/pg-core"), "primaryKey")

\* a table with a key of two entries, generated with block and import
C15_WitnessBlock ==
  /\ BuiltAs("table")
  /\ build.input.compositePrimaryKey = <<"id", "ownerId">>
  /\ build.result.error = NONE
  /\ Includes(build.result.tableCode, "primaryKey({ columns: [users.id, users.ownerId] })")

-----------------------------------------------------------------------------
(* Column references in the comparison (SpecDiff)                           *)

\* The <<table, column name>> pairs present in both snapshots whose references
\* option differs.
ReferenceChanges ==
  UNION {{<<pair[2].name, c.name>> :
            c \in {n \in Range(pair[2].columns) :
                     /\ HasName(pair[1].columns, n.name)
                     /\ FindByName(pair[1].columns, n.name).options.references
                          # n.options.references}} :
         pair \in MatchedTables}

\* C16: a name-matched column whose references option differs between the two
\* snapshots is reported by a column_references_changed change.
C16_ReferencesReported ==
  Compared =>
    \A rc \in ReferenceChanges :
      \E i \in 1..Len(diff.result.changes) :
        /\ diff.result.changes[i].type = "column_references_changed"
        /\ diff.result.changes[i].target.name = rc[1]
        /\ diff.result.changes[i].target.column = S(rc[2])

-----------------------------------------------------------------------------
(* The round trip as a state machine: a configuration is generated into an  *)
(* empty output directory, the directory is read back by a new SchemaReader *)
(* and the schema read is compared with the configuration.                  *)

TripColumn(name, type, options) == [name |-> name, type |-> type, options |-> options]

TripEnums ==
  {[name |-> "Status", values |-> <<"active", "inactive">>],
   [name |-> "Progress", values |-> <<"todo", "in_progress">>]}

TripHelpers ==
  {[name |-> "timestamps",
    columns |-> <<TripColumn("createdAt", S("date"),
                             [NoOptions EXCEPT !.notNull = B(TRUE),
                                               !.default = S("sql.now()")]),
                  TripColumn("updatedAt", S("date"), NoOptions)>>],
   [name |-> "ComplexHelper",
    columns |-> <<TripColumn("textField", S("text"), [NoOptions EXCEPT !.notNull = B(TRUE)]),
                  TripColumn("jsonField", S("json"), NoOptions),
                  TripColumn("boolField", S("boolean"),
                             [NoOptions EXCEPT !.default = B(FALSE)])>>],
   [name |-> "contact",
    columns |-> <<TripColumn("email", S("string"),
                             [NoOptions EXCEPT !.length = N(MaxLength),
                                               !.notNull = B(TRUE)]),
                  TripColumn("phone", S("string"), NoOptions)>>],
   [name |-> "counters",
    columns |-> <<TripColumn("visits", S("number"), [NoOptions EXCEPT !.default = N(0)]),
                  TripColumn("label", S("string"), [NoOptions EXCEPT !.default = S("none")])>>],
   [name |-> "priced", columns |-> <<TripColumn("price", S("money"), NoOptions)>>]}

TripTable(name, dbName, columns, helperReferences, compositePrimaryKey) ==
  [name |-> name, dbName |-> dbName, columns |-> columns,
   helperReferences |-> helperReferences, compositePrimaryKey |-> compositePrimaryKey]

TripUsers ==
  TripTable("users", NONE,
            <<TripColumn("id", S("serial"), [NoOptions EXCEPT !.primaryKey = B(TRUE)]),
              TripColumn("email", S("string"),
                         [NoOptions EXCEPT !.length = N(MaxLength), !.notNull = B(TRUE)])>>,
            <<"timestamps">>, <<>>)
TripUsersLater ==
  TripTable("users", NONE,
            <<TripColumn("id", S("serial"), [NoOptions EXCEPT !.primaryKey = B(TRUE)]),
              TripColumn("nickname", S("text"), NoOptions)>>,
            <<>>, <<>>)
TripUserRoles ==
  TripTable("UserRoles", NONE,
            <<TripColumn("userId", S("number"),
                         [NoOptions EXCEPT !.notNull = B(TRUE),
                                           !.references = Ref("users", "id")]),
              TripColumn("roleId", S("number"), [NoOptions EXCEPT !.notNull = B(TRUE)])>>,
            <<>>, <<"userId", "roleId">>)
TripPosts ==
  TripTable("posts", S("blog_posts"),
            <<TripColumn("id", S("serial"), [NoOptions EXCEPT !.primaryKey = B(TRUE)]),
              TripColumn("status", NONE, [NoOptions EXCEPT !.enumValues = S("Status")]),
              TripColumn("title", S("text"), [NoOptions EXCEPT !.notNull = B(TRUE)])>>,
            <<"timestamps", "contact">>, <<"id">>)
TripAudit == TripTable("audit", NONE, <<>>, <<"timestamps">>, <<>>)
TripBare == TripTable("bare", NONE, <<>>, <<>>, <<>>)

TripTables ==
  {<<>>, <<TripUsers>>, <<TripUserRoles>>, <<TripPosts>>, <<TripAudit>>, <<TripBare>>,
   <<TripUsers, TripUserRoles>>, <<TripUserRoles, TripUsers>>, <<TripPosts, TripAudit>>,
   <<TripUsers, TripUsersLater>>}

TripConfigs ==
  [enums : SeqsUpTo(TripEnums, 1), helpers : SeqsUpTo(TripHelpers, 1), tables : TripTables,
   overwrite : {NONE, B(TRUE)}]

InitTrip ==
  /\ trip \in {[pc |-> "config", config |-> c, generated |-> NONE, read |-> NONE,
                comparison |-> NONE] : c \in TripConfigs}
  /\ codec = Idle
  /\ enumc = Idle
  /\ diff = Idle
  /\ gate = Idle
  /\ reader = Idle
  /\ build = Idle

\* generateProject(config)
GenerateProject ==
  /\ trip.pc = "config"
  /\ \E result \in {generate(trip.config)} :
       trip' = [trip EXCEPT !.pc = "generated", !.generated = result]
  /\ UNCHANGED <<codec, enumc, diff, gate, reader, build>>

\* The orders in which readdir may list a directory.  The place of index.ts
\* is immaterial, the reader filters it out: it stays where it is.
Orders(dir) ==
  LET n == Len(dir.entries)
      fixed == {i \in 1..n : dir.entries[i].file = "index.ts"}
  IN {Dir([i \in 1..n |-> dir.entries[f[i]]]) :
        f \in {g \in [1..n -> 1..n] :
                 /\ \A i, j \in 1..n : g[i] = g[j] => i = j
                 /\ \A i \in fixed : g[i] = i}}

\* new SchemaReader(outputDir).readSchema(), on a directory listed in any order
ReadProject ==
  /\ trip.pc = "generated"
  /\ \E enums \in Orders(trip.generated.project.enums),
        helpers \in Orders(trip.generated.project.helpers),
        tables \in Orders(trip.generated.project.tables) :
       \E read \in {readSchema([index |-> trip.generated.project.index, enums |-> enums,
                                helpers |-> helpers, tables |-> tables])} :
         trip' = [trip EXCEPT !.pc = "read", !.read = read.result]
  /\ UNCHANGED <<codec, enumc, diff, gate, reader, build>>

\* compareSchemas(read.schema, config)
CompareProject ==
  /\ trip.pc = "read"
  /\ trip.read.schema # NONE
  /\ \E comparison \in {compareSchemas(trip.read.schema, trip.config)} :
       trip' = [trip EXCEPT !.pc = "compared", !.comparison = comparison]
  /\ UNCHANGED <<codec, enumc, diff, gate, reader, build>>

NextTrip ==
  \/ GenerateProject
  \/ ReadProject
  \/ CompareProject

SpecTrip == InitTrip /\ [][NextTrip]_vars

ReadBack == trip.pc \in {"read", "compared"} /\ trip.read.schema # NONE

\* the helpers and tables of the configuration that the generator accepts
AcceptedHelpers == SelectSeq(trip.config.helpers, LAMBDA h : HelperGenerator(h).error = NONE)
AcceptedTables == SelectSeq(trip.config.tables, LAMBDA t : TableGenerator(t).error = NONE)

\* a flag that is absent counts as false
SameFlag(a, b) == Truthy(a) <=> Truthy(b)

SameColumn(read, original) ==
  /\ read.name = original.name
  /\ read.type = original.type
  /\ SameFlag(read.options.notNull, original.options.notNull)
  /\ read.options.default = original.options.default

\* C17: a generated helper file reads back as a helper with the original
\* columns: as many, under the same names in the same order, each with its
\* original type, notNull flag and default.
C17_HelperReadBack ==
  ReadBack =>
    \A i \in 1..Len(AcceptedHelpers) :
      LET original == AcceptedHelpers[i]
      IN /\ HasName(trip.read.schema.helpers, original.name)
         /\ LET read == FindByName(trip.read.schema.helpers, original.name)
            IN /\ Len(read.columns) = Len(original.columns)
               /\ \A c \in 1..Len(original.columns) :
                    c <= Len(read.columns) => SameColumn(read.columns[c], original.columns[c])

ColumnNamesOf(columns) == [i \in 1..Len(columns) |-> columns[i].name]

\* C18: a generated table file reads back with the table's own columns in
\* declared order, its helper references in declared order, and the composite
\* primary key it was generated with when that key has two or more columns.
C18_TableReadBack ==
  ReadBack =>
    \A i \in 1..Len(AcceptedTables) :
      LET original == AcceptedTables[i]
          \* the file of that name holds this table, not another of its name
          written == ReadFile(trip.generated.project.tables, original.name \o ".ts").s
                       = FileContent(TableGenerator(original).imports,
                                     TableGenerator(original).tableCode)
      IN written =>
           /\ HasName(trip.read.schema.tables, original.name)
           /\ LET read == FindByName(trip.read.schema.tables, original.name)
              IN /\ ColumnNamesOf(read.columns) = ColumnNamesOf(original.columns)
                 /\ read.helperReferences = original.helperReferences
                 /\ Len(original.compositePrimaryKey) >= 2 =>
                      read.compositePrimaryKey = original.compositePrimaryKey

\* a table with columns, helper references in a given order and a composite
\* key, read back from its file
C18_Witness ==
  /\ ReadBack
  /\ trip.config.tables = <<TripUserRoles, TripUsers>>
  /\ trip.config.overwrite = B(TRUE)
  /\ Len(trip.read.schema.tables) = 2
  /\ FindByName(trip.read.schema.tables, "UserRoles").compositePrimaryKey
       = <<"userId", "roleId">>
  /\ FindByName(trip.read.schema.tables, "users").helperReferences = <<"timestamps">>

C18_WitnessSpreads ==
  /\ ReadBack
  /\ trip.config.tables = <<TripPosts, TripAudit>>
  /\ FindByName(trip.read.schema.tables, "posts").helperReferences
       = <<"timestamps", "contact">>
  /\ Len(FindByName(trip.read.schema.tables, "posts").columns) = 3

-----------------------------------------------------------------------------
(* readSchema called again on one SchemaReader, also before an earlier call  *)
(* has returned.  Every call has its own file list and its own lists of      *)
(* entities; the error list is the instance's (line 11).  A call runs from   *)
(* one await to the next: one file is read and parsed per step.  Between     *)
(* calls the files on disk may change.                                       *)

CleanProject ==
  [index |-> TRUE, enums |-> Dir(<<StatusFile, IndexFile>>),
   helpers |-> Dir(<<TimestampsFile>>), tables |-> Dir(<<UsersFile>>)]

SharedProjects ==
  {NONE, CleanProject,
   [CleanProject EXCEPT !.enums = Dir(<<BadEnumFile, StatusFile>>)],
   [CleanProject EXCEPT !.helpers = Dir(<<BadHelperFile, TimestampsFile>>),
                        !.tables = Dir(<<BadTableFile>>)],
   [index |-> FALSE, enums |-> NONE, helpers |-> NONE,
    tables |-> Dir(<<MembershipsFile, Unreadable("posts.ts")>>)]}

\* A call of readSchema at its first file.  `before` is the error list the
\* call found, `pushed` the errors the call itself adds, `alone` whether no
\* other call has run during this one, `reported` what the caller finds in
\* the errors of the result when the call returns.
RunningCall(files, errors, alone) ==
  [stage |-> Seek(files, "enums", 1)[1], next |-> Seek(files, "enums", 1)[2],
   files |-> files, enums |-> <<>>, helpers |-> <<>>, tables |-> <<>>,
   before |-> errors, pushed |-> <<>>, alone |-> alone,
   result |-> NONE, reported |-> <<>>]

Running(call) == call.result = NONE

Overlapped(calls) == [c \in 1..Len(calls) |-> [calls[c] EXCEPT !.alone = @ /\ ~Running(calls[c])]]

\* A faulty call that C19 must reject: readSchema empties the error list
\* before it reads.
BeginCallReset(instance, files) ==
  [instance EXCEPT
     !.errors = <<>>,
     !.calls = Append(Overlapped(@),
                      RunningCall(files, instance.errors,
                                  \A c \in 1..Len(instance.calls) : ~Running(instance.calls[c])))]

\* readSchema() up to its first file, lines 20-42: the error list is left as
\* it is.
BeginCall(instance, files) ==
  [instance EXCEPT
     !.calls = Append(Overlapped(@),
                      RunningCall(files, instance.errors,
                                  \A c \in 1..Len(instance.calls) : ~Running(instance.calls[c])))]

InitShared ==
  /\ reader \in {[pc |-> "shared", project |-> p, errors |-> <<>>, calls |-> <<>>] :
                   p \in SharedProjects}
  /\ codec = Idle
  /\ enumc = Idle
  /\ diff = Idle
  /\ gate = Idle
  /\ build = Idle
  /\ trip = Idle

\* readSchema() on a project that does not exist: lines 23-36
CallMissing ==
  /\ Len(reader.calls) < MaxCalls
  /\ ~checkProjectExists(reader.project)
  /\ reader' = [reader EXCEPT
                  !.calls = Append(Overlapped(@),
                                   [RunningCall(MissingResult.files, reader.errors, FALSE) EXCEPT
                                         !.stage = "returned", !.next = 0,
                                         !.files = MissingResult.files,
                                         !.result = MissingResult,
                                         !.reported = MissingResult.errors.list])]
  /\ UNCHANGED <<codec, enumc, diff, gate, build, trip>>

\* readSchema() up to the first file
CallStart ==
  /\ Len(reader.calls) < MaxCalls
  /\ checkProjectExists(reader.project)
  /\ \E files \in {getFileStructure(reader.project)} :
       reader' = BeginCall(reader, files)
  /\ UNCHANGED <<codec, enumc, diff, gate, build, trip>>

KindOf(stage) ==
  CASE stage = "enums" -> "enum" [] stage = "helpers" -> "helper" [] stage = "tables" -> "table"

\* one turn of the loop of parseEnums, parseHelpers or parseTables in call c
CallParseFile(c) ==
  LET call == reader.calls[c]
  IN /\ call.stage \in {"enums", "helpers", "tables"}
     /\ \E file \in {call.files[call.stage][call.next]} :
          \E content \in {ReadFile(reader.project[call.stage], file)} :
            \E parsed \in {ParseFile(KindOf(call.stage), content, file)} :
              \E at \in {Seek(call.files, call.stage, call.next + 1)} :
                reader' = [reader EXCEPT
                             !.errors = @ \o parsed.errors,
                             !.calls[c] =
                               [call EXCEPT
                                  ![call.stage] = IF parsed.def # NONE
                                                  THEN Append(@, parsed.def) ELSE @,
                                  !.pushed = @ \o parsed.errors,
                                  !.stage = at[1], !.next = at[2]]]
     /\ UNCHANGED <<codec, enumc, diff, gate, build, trip>>

\* readSchema() of call c after its last file: lines 47-64
CallReturn(c) ==
  LET call == reader.calls[c]
  IN /\ call.stage = "done"
     /\ \E result \in {ReadResult(reader.project, call.files, call.enums, call.helpers,
                                  call.tables, reader.errors)} :
          reader' = [reader EXCEPT
                       !.calls[c] =
                         [call EXCEPT
                            !.stage = "returned", !.result = result,
                            !.reported = IF result.errors = ReaderErrors
                                         THEN reader.errors ELSE <<>>]]
     /\ UNCHANGED <<codec, enumc, diff, gate, build, trip>>

\* The files on disk change while no call is running.
ChangeFiles ==
  /\ reader.calls # <<>>
  /\ Len(reader.calls) < MaxCalls
  /\ \A c \in 1..Len(reader.calls) : ~Running(reader.calls[c])
  /\ \E p \in SharedProjects \ {reader.project} :
       reader' = [reader EXCEPT !.project = p]
  /\ UNCHANGED <<codec, enumc, diff, gate, build, trip>>

NextShared ==
  \/ CallMissing
  \/ CallStart
  \/ \E c \in 1..Len(reader.calls) : CallParseFile(c)
  \/ \E c \in 1..Len(reader.calls) : CallReturn(c)
  \/ ChangeFiles

SpecShared == InitShared /\ [][NextShared]_vars

IsPrefix(short, long) ==
  Len(short) <= Len(long) /\ SubSeq(long, 1, Len(short)) = short

ReturnedCalls == {c \in 1..Len(reader.calls) : ~Running(reader.calls[c])}

\* The calls that found the project and read its files.
ReadingCalls == {c \in ReturnedCalls : reader.calls[c].result.schema # NONE}

\* C19: the error list of an instance is never reset.  A call that found the
\* project reports the errors recorded before it as well, and returns success
\* false when there are any, even when all of its own files decoded cleanly;
\* a call on a fresh instance that no other call overlaps reports exactly its
\* own decode failures.
C19_ErrorsNeverReset ==
  /\ \A c \in 1..Len(reader.calls) : IsPrefix(reader.calls[c].before, reader.errors)
  /\ \A c \in ReadingCalls :
       LET call == reader.calls[c]
       IN /\ call.result.success <=> call.reported = <<>>
          /\ call.before # <<>> =>
               /\ ~call.result.success
               /\ call.result.errors = ReaderErrors
               /\ IsPrefix(call.before, call.reported)
          /\ call.alone => call.reported = call.before \o call.pushed
          /\ (call.alone /\ call.before = <<>>) => call.reported = call.pushed

\* a second call that decodes every file cleanly and reports the errors of
\* the first call
C19_Witness ==
  /\ Len(reader.calls) = 2
  /\ ReadingCalls = {1, 2}
  /\ reader.calls[1].alone /\ reader.calls[2].alone
  /\ reader.calls[1].pushed # <<>>
  /\ reader.calls[2].pushed = <<>>
  /\ reader.calls[2].reported = reader.calls[1].pushed
  /\ ~reader.calls[2].result.success

\* a call that begins while the first call is running and reports the first
\* call's errors among its own
C19_WitnessOverlap ==
  /\ Len(reader.calls) = 2
  /\ ReadingCalls = {1, 2}
  /\ ~reader.calls[1].alone /\ ~reader.calls[2].alone
  /\ reader.calls[2].before # <<>>
  /\ Len(reader.calls[2].reported) > Len(reader.calls[2].pushed)

\* C19 as stated, for every call on an instance that has recorded errors
C19_EveryCallReportsEarlier ==
  \A c \in ReturnedCalls :
    LET call == reader.calls[c]
    IN call.before # <<>> =>
         /\ ~call.result.success
         /\ IsPrefix(call.before, call.reported)

\* The generator accepted the configuration without an error and the project
\* was read back and compared with it.
AcceptedAndCompared == trip.pc = "compared" /\ trip.generated.success

\* C20: for a configuration the project generator accepts without error,
\* comparing the schema read back from the generated project with the
\* configuration reports no change.
C20_RoundTripNoChanges ==
  AcceptedAndCompared => trip.comparison.changes = <<>>

\* a configuration whose project reads back without any change
C20_SomeRoundTrip ==
  AcceptedAndCompared /\ trip.comparison.changes = <<>> /\ trip.config.tables # <<>>

-----------------------------------------------------------------------------
(* The partition made by applySafeChanges                                   *)

Occurs(items, x) == Cardinality({i \in 1..Len(items) : items[i] = x})

\* `part` holds its members in the order in which `whole` holds them.
KeepsOrder(part, whole) == part = SelectSeq(whole, LAMBDA c : Has(part, c))

\* The result of the same call with another dryRun option.
WithDryRun(flag) ==
  applySafeChanges("./src/db", gate.comparison, [gate.options EXCEPT !.dryRun = flag],
                   <<>>).result

\* C21: applySafeChanges partitions comparison.changes: every change is in
\* exactly one of applied and rejected, both lists keep the order of
\* comparison.changes, appliedCount + rejectedCount = totalChanges = the
\* length of comparison.changes, and the partition does not depend on dryRun.
C21_Partition ==
  Done =>
    LET chs == gate.comparison.changes
        applied == gate.result.applied
        rejected == gate.result.rejected
        metadata == gate.result.metadata
    IN /\ \A i \in 1..Len(chs) :
            /\ Has(applied, chs[i]) # Has(rejected, chs[i])
            /\ Occurs(applied, chs[i]) + Occurs(rejected, chs[i]) = Occurs(chs, chs[i])
       /\ Len(applied) + Len(rejected) = Len(chs)
       /\ KeepsOrder(applied, chs)
       /\ KeepsOrder(rejected, chs)
       /\ metadata.appliedCount = Len(applied)
       /\ metadata.rejectedCount = Len(rejected)
       /\ metadata.appliedCount + metadata.rejectedCount = metadata.totalChanges
       /\ metadata.totalChanges = Len(chs)
       /\ \A flag \in Flags :
            /\ WithDryRun(flag).applied = applied
            /\ WithDryRun(flag).rejected = rejected

\* a dry run that splits three changes into two applied and one rejected
C21_Witness ==
  /\ Done
  /\ Given("dryRun", TRUE)
  /\ ImpactsOf(gate.comparison.changes) = <<"breaking", "safe", "warning">>
  /\ ImpactsOf(gate.result.applied) = <<"safe", "warning">>
  /\ ImpactsOf(gate.result.rejected) = <<"breaking">>

-----------------------------------------------------------------------------
(* Defaults through the column codec                                        *)

\* The definition is rendered as an enum column (ColumnGenerator lines 46-53).
EnumColumn(d) ==
  /\ d.options.enumValues # NONE
  /\ d.type = NONE \/ ToLowerCase(d.type.s) = "enum"

\* A string default that is rendered between quotes (lines 80-86).
QuotedDefault(d) ==
  /\ d.options.default # NONE
  /\ d.options.default.k = "string"
  /\ ~Includes(d.options.default.s, "(")
  /\ ~Includes(d.options.default.s, ".")
  /\ ~Includes(d.options.default.s, BT)

\* C22: decoding an enum column whose default was rendered in PascalCase
\* gives the default back in snake_case: a lower snake_case enum default, also
\* one of several words such as in_progress, is unchanged by encode followed
\* by decode.
C22_EnumDefaultRestored ==
  (codec.pc = "decoded" /\ EnumColumn(codec.d) /\ QuotedDefault(codec.d)) =>
    /\ codec.dec # NONE
    /\ codec.dec.options.default = codec.d.options.default

\* a one-word enum default, which does come back unchanged
C22_OneWord ==
  /\ codec.pc = "decoded" /\ EnumColumn(codec.d)
  /\ codec.d.options.default = S("active")
  /\ codec.dec.options.default = S("active")

\* The string has the form sql.<fn>(), sql.now() included.
SqlForm(s) ==
  /\ StartsWith(s, "sql.")
  /\ RunEnd(s, 5, WordChars) >= 5
  /\ From(s, RunEnd(s, 5, WordChars) + 1) = "()"

\* The type of the column, given or inferred, is "enum" (lines 19-28 and 81).
EnumTyped(d) ==
  IF d.type = NONE THEN d.options.enumValues # NONE ELSE ToLowerCase(d.type.s) = "enum"

\* The generator has accepted a definition that has a default.
EncodedDefault ==
  /\ codec.pc = "encoded"
  /\ codec.enc.error = NONE
  /\ codec.d.options.default # NONE

\* C23: a string default that is not of the form sql.<fn>() is rendered
\* between single quotes, in PascalCase when the column is an enum column;
\* the sql.<fn>() forms, booleans and integers are rendered without quotes.
C23_StringDefaultsQuoted ==
  EncodedDefault =>
    LET d == codec.d
        value == d.options.default
        rendered(text) == Includes(codec.enc.column, ".default(" \o text \o ")")
    IN CASE value.k = "boolean" -> rendered(IF value.b THEN "true" ELSE "false")
         [] value.k = "number" -> rendered(NumToStr(value.n))
         [] value.k = "string" /\ SqlForm(value.s) ->
              rendered("sql" \o BT \o SubSeq(value.s, 5, Len(value.s)) \o BT)
         [] OTHER ->
              rendered("'" \o (IF EnumTyped(d) THEN PascalCase(value.s) ELSE value.s) \o "'")

\* a plain word, which is rendered between quotes
C23_PlainWord ==
  /\ EncodedDefault
  /\ codec.d.type = S("string")
  /\ codec.d.options.default = S("active")
  /\ Includes(codec.enc.column, ".default('active')")

-----------------------------------------------------------------------------
(* The recommendations of a comparison                                      *)

BackupLine == "Back up data for removed tables before applying changes."
MigrationLine == "Plan data migration for removed columns."
DefaultValueLine == "Add default values or populate data for new NOT NULL columns."

Recommends(line) == Has(diff.result.recommendations, line)

AnyType == {"enum_added", "enum_removed", "enum_value_added", "enum_value_removed",
            "helper_added", "helper_removed", "helper_column_added", "helper_column_removed",
            "table_added", "table_removed", "table_column_added", "table_column_removed",
            "column_type_changed", "column_primary_key_changed", "column_not_null_changed",
            "column_default_changed", "table_helper_reference_added",
            "table_helper_reference_removed", "table_composite_primary_key_changed"}

\* The comparison holds a change of one of the types and one of the impacts.
Reported(types, impacts) ==
  \E i \in 1..Len(diff.result.changes) :
    diff.result.changes[i].type \in types /\ diff.result.changes[i].impact \in impacts

\* C24: when some change is breaking, the recommendations hold the
\* migration-plan line iff a column was removed, from a table or from a
\* helper, and the backup-data line iff a table was removed.
C24_RemovalLines ==
  (Compared /\ Reported(AnyType, {"breaking"})) =>
    /\ Recommends(MigrationLine)
         <=> Reported({"table_column_removed", "helper_column_removed"}, Impacts)
    /\ Recommends(BackupLine) <=> Reported({"table_removed"}, Impacts)

\* a removed table column and a removed table, which give both lines
C24_BothLines ==
  /\ Compared
  /\ Reported({"table_column_removed"}, Impacts)
  /\ Reported({"table_removed"}, Impacts)
  /\ Recommends(MigrationLine)
  /\ Recommends(BackupLine)

\* C25: when some change is a warning, the recommendations hold the
\* default-value line iff a NOT NULL column was added to a table; a warning
\* of another kind does not produce the line.
C25_DefaultValueLine ==
  (Compared /\ Reported(AnyType, {"warning"})) =>
    (Recommends(DefaultValueLine)
       <=> Reported({"table_column_added"}, {"warning"}))

\* a NOT NULL column added to a table, which gives the line
C25_AddedNotNull ==
  /\ Compared
  /\ Reported({"table_column_added"}, {"warning"})
  /\ Recommends(DefaultValueLine)

\* a removed helper alone, which does not give the line
C25_HelperRemoved ==
  /\ Compared
  /\ Reported({"helper_removed"}, Impacts)
  /\ ~Reported({"table_column_added"}, Impacts)
  /\ ~Recommends(DefaultValueLine)

-----------------------------------------------------------------------------
(* The summary of a comparison                                              *)

RECURSIVE SumOf(_, _)
\* The sum of the counts that `counts` holds for the keys `keys`.
SumOf(counts, keys) ==
  IF keys = {} THEN 0
  ELSE LET k == CHOOSE x \in keys : TRUE
       IN counts[k] + SumOf(counts, keys \ {k})

\* C26: in every comparison, summary.totalChanges is the length of changes,
\* the counts of byCategory, of byImpact and of byType each sum to
\* totalChanges, and canApply.safe / withWarnings / withBreaking is true iff
\* the byImpact count of safe / warning / breaking is greater than zero.
C26_SummaryCounts ==
  Compared =>
    LET summary == diff.result.summary
        canApply == diff.result.canApply
    IN /\ summary.totalChanges = Len(diff.result.changes)
       /\ SumOf(summary.byCategory, DOMAIN summary.byCategory) = summary.totalChanges
       /\ SumOf(summary.byImpact, DOMAIN summary.byImpact) = summary.totalChanges
       /\ SumOf(summary.byType, DOMAIN summary.byType) = summary.totalChanges
       /\ canApply.safe <=> summary.byImpact["safe"] > 0
       /\ canApply.withWarnings <=> summary.byImpact["warning"] > 0
       /\ canApply.withBreaking <=> summary.byImpact["breaking"] > 0

\* a comparison with changes of the three impacts, two of them of one type
C26_Witness ==
  /\ Compared
  /\ diff.result.summary.totalChanges >= 4
  /\ \A m \in Impacts : diff.result.summary.byImpact[m] > 0
  /\ \E t \in DOMAIN diff.result.summary.byType : diff.result.summary.byType[t] >= 2
  /\ diff.result.canApply = [safe |-> TRUE, withWarnings |-> TRUE, withBreaking |-> TRUE]

-----------------------------------------------------------------------------
(* Table names through generation and reading                                *)

\* The names of the table files of the generated project that hold a table.
TableFileNames ==
  LET files == SchemaFiles(trip.generated.project.tables)
  IN {StripTs(files[i]) : i \in 1..Len(files)}

\* C27: a table read back is named after its file, without the extension, and
\* carries a dbName only when the identifier in the file differs from the
\* lower-cased snake_case form of that name: a table generated without dbName
\* is read back without dbName, whatever the number of words of its name.
C27_TableNames ==
  ReadBack =>
    /\ {trip.read.schema.tables[i].name : i \in 1..Len(trip.read.schema.tables)}
         = TableFileNames
    /\ \A i \in 1..Len(trip.read.schema.tables) :
         LET read == trip.read.schema.tables[i]
         IN read.dbName # NONE => read.dbName.s # ToLowerCase(SnakeCase(read.name))
    /\ \A i \in 1..Len(AcceptedTables) :
         LET original == AcceptedTables[i]
         IN (original.dbName = NONE /\ HasName(trip.read.schema.tables, original.name)) =>
              FindByName(trip.read.schema.tables, original.name).dbName = NONE

\* a table of a one-word name without dbName, read back without dbName, and a
\* table with a dbName of its own, read back with it
C27_OneWord ==
  /\ ReadBack
  /\ trip.config.tables = <<TripPosts, TripAudit>>
  /\ FindByName(trip.read.schema.tables, "audit").dbName = NONE
  /\ FindByName(trip.read.schema.tables, "posts").dbName = S("blog_posts")

-----------------------------------------------------------------------------
(* Flags of name-matched columns                                            *)

\* The <<table, old column, new column>> triples of the columns that carry
\* the same name in a table of both snapshots.
MatchedColumns ==
  UNION {{<<pair[2].name, FindByName(pair[1].columns, c.name), c>> :
            c \in {n \in Range(pair[2].columns) : HasName(pair[1].columns, n.name)}} :
         pair \in MatchedTables}

\* The comparison holds a change of `type` for the column of the table.
ColumnChanged(table, column, type) ==
  \E i \in 1..Len(diff.result.changes) :
    /\ diff.result.changes[i].type = type
    /\ diff.result.changes[i].target.type = "table"
    /\ diff.result.changes[i].target.name = table
    /\ diff.result.changes[i].target.column = S(column)

\* C28: for a name-matched column, column_not_null_changed and
\* column_primary_key_changed are reported only when the effective flag
\* differs between old and new, an absent flag counting as false.
C28_EffectiveFlags ==
  Compared =>
    \A m \in MatchedColumns :
      /\ ColumnChanged(m[1], m[3].name, "column_not_null_changed")
           => Truthy(m[2].options.notNull) # Truthy(m[3].options.notNull)
      /\ ColumnChanged(m[1], m[3].name, "column_primary_key_changed")
           => Truthy(m[2].options.primaryKey) # Truthy(m[3].options.primaryKey)

\* a column that becomes NOT NULL, which is reported
C28_RealChange ==
  /\ Compared
  /\ \E m \in MatchedColumns :
       /\ m[2].options.notNull = NONE
       /\ m[3].options.notNull = B(TRUE)
       /\ ColumnChanged(m[1], m[3].name, "column_not_null_changed")

-----------------------------------------------------------------------------
(* The comparison in both directions                                        *)

\* The removal that mirrors each addition.
Mirror ==
  [t \in {"enum_added", "enum_value_added", "helper_added", "helper_column_added",
          "table_added", "table_column_added", "table_helper_reference_added"} |->
     CASE t = "enum_added" -> "enum_removed"
       [] t = "enum_value_added" -> "enum_value_removed"
       [] t = "helper_added" -> "helper_removed"
       [] t = "helper_column_added" -> "helper_column_removed"
       [] t = "table_added" -> "table_removed"
       [] t = "table_column_added" -> "table_column_removed"
       [] t = "table_helper_reference_added" -> "table_helper_reference_removed"]

Modifications ==
  {"column_type_changed", "column_primary_key_changed", "column_not_null_changed",
   "column_default_changed", "table_composite_primary_key_changed"}

\* What a change is about: its target, and the enum value or the helper
\* reference that its details name.
Subject(change) ==
  <<change.target,
    IF change.type \in {"enum_value_added", "enum_value_removed",
                        "table_helper_reference_added", "table_helper_reference_removed"}
    THEN change.details ELSE NONE>>

\* The number of changes of the type about the subject.
Reports(changes, type, subject) ==
  Cardinality({i \in 1..Len(changes) :
                 changes[i].type = type /\ Subject(changes[i]) = subject})

SubjectsOf(changes) == {Subject(changes[i]) : i \in 1..Len(changes)}

\* Whether the two change lists, of compareSchemas(a, b) and of
\* compareSchemas(b, a), mirror one another.
Mirrored(forward, backward) ==
  /\ \A t \in DOMAIN Mirror :
       \A s \in SubjectsOf(forward) \cup SubjectsOf(backward) :
         /\ Reports(forward, t, s) = Reports(backward, Mirror[t], s)
         /\ Reports(forward, Mirror[t], s) = Reports(backward, t, s)
  /\ \A t \in Modifications :
       \A s \in SubjectsOf(forward) \cup SubjectsOf(backward) :
         Reports(forward, t, s) > 0 <=> Reports(backward, t, s) > 0

\* C29: the additions of compareSchemas(a, b) and the removals of
\* compareSchemas(b, a) have the same targets and the same counts at every
\* level, and a modification is reported for a column or a table in one
\* direction iff it is reported in the other.
C29_Antisymmetric ==
  Compared =>
    \A backward \in {compareSchemas(diff.new, diff.current).changes} :
      Mirrored(diff.result.changes, backward)

\* two snapshots with entities of unique names, whose comparisons mirror one
\* another
C29_UniqueNames ==
  /\ Compared
  /\ UniqueNames(diff.current.enums) /\ UniqueNames(diff.new.enums)
  /\ Reported({"enum_value_added"}, Impacts)
  /\ Reported({"enum_removed"}, Impacts)
  /\ Mirrored(diff.result.changes, compareSchemas(diff.new, diff.current).changes)

-----------------------------------------------------------------------------
(* The results of earlier calls on a shared instance                        *)

\* What the errors of a returned result hold now: the result of lines 57-64
\* holds the instance's list itself, not a copy.
ErrorsNow(call) ==
  CASE call.result.errors = NONE -> <<>>
    [] call.result.errors = ReaderErrors -> reader.errors
    [] OTHER -> call.result.errors.list

\* C30: a result that readSchema has returned is not altered afterwards: a
\* later or overlapping call on the instance leaves the errors of the earlier
\* result as they were when it was returned.
C30_ResultsStable ==
  \A c \in ReturnedCalls : ErrorsNow(reader.calls[c]) = reader.calls[c].reported

\* a result without errors, which a later call with errors leaves as it was
C30_CleanResultKept ==
  /\ Len(reader.calls) = 2
  /\ ReturnedCalls = {1, 2}
  /\ reader.calls[1].result.success
  /\ reader.calls[2].pushed # <<>>
  /\ ErrorsNow(reader.calls[1]) = <<>>

====
